---- MODULE Spec2Model ----
(***************************************************************************)
(* State-machine model of the ShapeCanvas editor: the App component        *)
(* (objects, selection, history, tool and brush settings) and the Canvas   *)
(* component (pointer handlers and their transient gesture state).         *)
(*                                                                         *)
(* Numbers.  Transforms and pointer positions are integers.  Stored path   *)
(* points and erase-mask points are exact rationals <<n, d>> (d > 0, in    *)
(* lowest terms), because resize rescales a path by width ratios and the   *)
(* eraser normalises by width and height.  Rotation is kept in degrees     *)
(* and restricted to multiples of 90, where sin and cos are exact.         *)
(*                                                                         *)
(* A nullable piece of state (dragStart, marqueeStart, ...) is the empty   *)
(* sequence when null and the one-element sequence <<v>> otherwise.        *)
(***************************************************************************)
EXTENDS Integers, Sequences, FiniteSets, TLC

CANVAS_WIDTH == 1200
CANVAS_HEIGHT == 800

\* Bounds of the model.
MaxObjects == 3
MaxHistory == 6
MaxPath == 2
MaxPending == 1
MaxTime == 2

\* Inputs: the pointer positions events are delivered at.
Pt(a, b) == [x |-> a, y |-> b]
Pointer == {Pt(100, 100), Pt(300, 250), Pt(200, 175), Pt(0, 100),
            Pt(1150, 780)}

Min(a, b) == IF a < b THEN a ELSE b
Max(a, b) == IF a > b THEN a ELSE b
Abs(a) == IF a < 0 THEN -a ELSE a

None == <<>>
Some(v) == <<v>>
IsSome(o) == Len(o) = 1
Val(o) == o[1]

(***************************************************************************)
(* Exact rationals.                                                        *)
(***************************************************************************)
RECURSIVE Gcd(_, _)
Gcd(a, b) == IF b = 0 THEN a ELSE Gcd(b, a % b)

Rat(n, d) ==
  LET s == IF d < 0 THEN -1 ELSE 1
      g == Gcd(Abs(n), Abs(d))
  IN  <<(s * n) \div g, (s * d) \div g>>
RInt(i) == <<i, 1>>
RAdd(p, q) ==
  LET g == Gcd(p[2], q[2])
  IN  Rat(p[1] * (q[2] \div g) + q[1] * (p[2] \div g), (p[2] \div g) * q[2])
RNeg(p) == <<-p[1], p[2]>>
RSub(p, q) == RAdd(p, RNeg(q))
\* Factors are cancelled crosswise first, so that no intermediate value is
\* larger than the result's own numerator and denominator.
RMul(p, q) ==
  LET g1 == Gcd(Abs(p[1]), q[2])
      g2 == Gcd(Abs(q[1]), p[2])
  IN  Rat((p[1] \div g1) * (q[1] \div g2), (p[2] \div g2) * (q[2] \div g1))
RDiv(p, q) == RMul(p, IF q[1] < 0 THEN <<-q[2], -q[1]>> ELSE <<q[2], q[1]>>)
RLt(p, q) == RSub(p, q)[1] < 0
RLe(p, q) == RSub(p, q)[1] <= 0
RPt(p) == [x |-> RInt(p.x), y |-> RInt(p.y)]

(***************************************************************************)
(* Integers of any size, for the squared distances of the path hit-test:   *)
(* <<sign, magnitude>>, the magnitude a sequence of base-32768 digits,     *)
(* least significant first, without leading zeros.                         *)
(***************************************************************************)
BigBase == 2^15

RECURSIVE BigDigits(_)
BigDigits(n) == IF n = 0 THEN <<>> ELSE <<n % BigBase>> \o BigDigits(n \div BigBase)

RECURSIVE BigTrim(_)
BigTrim(a) ==
  IF a = <<>> THEN a
  ELSE IF a[Len(a)] = 0 THEN BigTrim(SubSeq(a, 1, Len(a) - 1)) ELSE a

RECURSIVE MagAdd(_, _, _)
MagAdd(a, b, carry) ==
  IF a = <<>> /\ b = <<>> THEN (IF carry = 0 THEN <<>> ELSE <<carry>>)
  ELSE LET x == IF a = <<>> THEN 0 ELSE Head(a)
           y == IF b = <<>> THEN 0 ELSE Head(b)
           t == x + y + carry
       IN  <<t % BigBase>> \o MagAdd(IF a = <<>> THEN a ELSE Tail(a),
                                      IF b = <<>> THEN b ELSE Tail(b),
                                      t \div BigBase)

\* a - b for magnitudes with a >= b.
RECURSIVE MagSubRaw(_, _, _)
MagSubRaw(a, b, borrow) ==
  IF a = <<>> THEN <<>>
  ELSE LET y == IF b = <<>> THEN 0 ELSE Head(b)
           t == Head(a) - y - borrow
       IN  <<IF t < 0 THEN t + BigBase ELSE t>>
           \o MagSubRaw(Tail(a), IF b = <<>> THEN b ELSE Tail(b),
                        IF t < 0 THEN 1 ELSE 0)
MagSub(a, b) == BigTrim(MagSubRaw(a, b, 0))

RECURSIVE MagLess(_, _)
MagLess(a, b) ==
  IF Len(a) # Len(b) THEN Len(a) < Len(b)
  ELSE IF a = <<>> THEN FALSE
  ELSE IF a[Len(a)] # b[Len(b)] THEN a[Len(a)] < b[Len(b)]
  ELSE MagLess(SubSeq(a, 1, Len(a) - 1), SubSeq(b, 1, Len(b) - 1))

RECURSIVE MagMulDigit(_, _, _)
MagMulDigit(a, d, carry) ==
  IF a = <<>> THEN (IF carry = 0 THEN <<>> ELSE <<carry>>)
  ELSE LET t == Head(a) * d + carry
       IN  <<t % BigBase>> \o MagMulDigit(Tail(a), d, t \div BigBase)

RECURSIVE MagMul(_, _)
MagMul(a, b) ==
  IF a = <<>> \/ b = <<>> THEN <<>>
  ELSE LET rest == MagMul(a, Tail(b))
       IN  BigTrim(MagAdd(MagMulDigit(a, Head(b), 0),
                          IF rest = <<>> THEN rest ELSE <<0>> \o rest, 0))

Big(n) == <<IF n < 0 THEN -1 ELSE 1, BigDigits(Abs(n))>>
BigNeg(a) == IF a[2] = <<>> THEN a ELSE <<-a[1], a[2]>>
BigAdd(a, b) ==
  IF a[1] = b[1] THEN <<a[1], MagAdd(a[2], b[2], 0)>>
  ELSE IF a[2] = b[2] THEN <<1, <<>>>>
  ELSE IF MagLess(a[2], b[2]) THEN <<b[1], MagSub(b[2], a[2])>>
  ELSE <<a[1], MagSub(a[2], b[2])>>
BigSub(a, b) == BigAdd(a, BigNeg(b))
BigMul(a, b) ==
  IF a[2] = <<>> \/ b[2] = <<>> THEN <<1, <<>>>>
  ELSE <<a[1] * b[1], MagMul(a[2], b[2])>>
BigLt(a, b) == LET d == BigSub(a, b) IN d[1] = -1 /\ d[2] # <<>>
BigIsZero(a) == a[2] = <<>>

(***************************************************************************)
(* Sequence helpers (Array.prototype.map / filter / find / includes).      *)
(***************************************************************************)
Includes(s, v) == \E i \in 1..Len(s) : s[i] = v
Reverse(s) == [i \in 1..Len(s) |-> s[Len(s) + 1 - i]]
\* find over an already filtered sequence: its first element, as an optional.
First(hits) == IF hits = <<>> THEN None ELSE Some(Head(hits))

(***************************************************************************)
(* State.                                                                  *)
(***************************************************************************)
VARIABLES
  \* App
  currentTool, objects, selectedIds, zoom, history, historyIndex,
  eraserSize, brushSize,
  \* Canvas
  isDrawing, currentPath, dragStart, dragOffset, resizeHandle,
  marqueeStart, marqueeCurrent, shapeStart, shapeCurrent,
  \* environment: the last value Date.now() returned, and the image loads
  \* whose onload callback has not run yet (each holds the closure it captured)
  now, pendingImages,
  \* observation: the last event handled, and for the select-tool gesture
  \* or the undo/redo command handled last: its kind, the history index
  \* (idx0) and whether anything was selected (sel0) when it began, the
  \* number of its committing pointer-moves (counted up to 2), and the
  \* selected object before (from) and the pointer delta of (delta) its
  \* last pointer-move; and whether the multi-select modifier (ctrl or
  \* meta) was held at the pointer-down or pointer-up handled last
  lastEvent, gesture, modifier

appVars == <<currentTool, objects, selectedIds, zoom, history, historyIndex,
             eraserSize, brushSize>>
canvasVars == <<isDrawing, currentPath, dragStart, dragOffset, resizeHandle,
                marqueeStart, marqueeCurrent, shapeStart, shapeCurrent>>
envVars == <<now, pendingImages>>
vars == <<appVars, canvasVars, envVars, lastEvent, gesture, modifier>>

ShapeTools == {"rectangle", "circle", "triangle", "polygon", "star", "line"}

NoGesture ==
  [kind |-> "none", idx0 |-> 0, sel0 |-> FALSE, moves |-> 0,
   from |-> None, delta |-> None]

Began == [NoGesture EXCEPT !.idx0 = historyIndex, !.sel0 = (selectedIds # <<>>)]

(***************************************************************************)
(* Objects.  Every object carries the same fields; a field a variant does  *)
(* not use is empty (path, children) or 0 (originalWidth/originalHeight).  *)
(***************************************************************************)
Transform(x, y, w, h, r) ==
  [x |-> x, y |-> y, width |-> w, height |-> h, rotation |-> r]

NewObject(id, type, transform, strokeWidth, path, ow, oh, children) ==
  [id |-> id, type |-> type, transform |-> transform,
   style |-> [strokeWidth |-> strokeWidth],
   path |-> path, erasedAreas |-> <<>>,
   originalWidth |-> ow, originalHeight |-> oh, children |-> children]

\* Date.now(): a value no smaller than the last one read.
DateNow == {t \in {now, now + 1} : t <= MaxTime}

(***************************************************************************)
(* Geometry.                                                               *)
(***************************************************************************)
\* A faulty variant that forgets the right and bottom edges.
constrainToCanvasLowerOnly(x, y, width, height) ==
  [x |-> Max(0, x),
   y |-> Max(0, y),
   width |-> Min(width, CANVAS_WIDTH),
   height |-> Min(height, CANVAS_HEIGHT)]

constrainToCanvas(x, y, width, height) ==
  [x |-> Max(0, Min(x, CANVAS_WIDTH - width)),
   y |-> Max(0, Min(y, CANVAS_HEIGHT - height)),
   width |-> Min(width, CANVAS_WIDTH),
   height |-> Min(height, CANVAS_HEIGHT)]

\* cos and sin of a multiple of 90 degrees.
Cos90(deg) == CASE deg % 360 = 0 -> 1 [] deg % 360 = 180 -> -1 [] OTHER -> 0
Sin90(deg) == CASE deg % 360 = 90 -> 1 [] deg % 360 = 270 -> -1 [] OTHER -> 0

\* Whether the point (x, y) is nearer than threshold to the segment p1-p2:
\* the distance to the closest point of the segment, which is p1 when
\* param < 0, p2 when param > 1 and the foot of the perpendicular otherwise.
\* Lengths along x are counted in units of 1/dx and along y in units of
\* 1/dy (the path's denominators), and squares are compared after scaling
\* both sides by dx^2 dy^2; in the last case squaredDistance * lenSq, which
\* is the square of the cross product, is compared with threshold^2 * lenSq.
NearSegment(x, y, p1, p2, threshold) ==
  LET dx == (p1.x[2] \div Gcd(p1.x[2], p2.x[2])) * p2.x[2]
      dy == (p1.y[2] \div Gcd(p1.y[2], p2.y[2])) * p2.y[2]
      X1 == p1.x[1] * (dx \div p1.x[2])
      X2 == p2.x[1] * (dx \div p2.x[2])
      Y1 == p1.y[1] * (dy \div p1.y[2])
      Y2 == p2.y[1] * (dy \div p2.y[2])
      sx == BigMul(Big(dy), Big(dy))
      sy == BigMul(Big(dx), Big(dx))
      A == Big(x * dx - X1)
      B == Big(y * dy - Y1)
      C == Big(X2 - X1)
      D == Big(Y2 - Y1)
      SqLen(u, v) == BigAdd(BigMul(BigMul(u, u), sx), BigMul(BigMul(v, v), sy))
      dot == BigAdd(BigMul(BigMul(A, C), sx), BigMul(BigMul(B, D), sy))
      lenSq == SqLen(C, D)
      limit == BigMul(Big(threshold * threshold), BigMul(sx, sy))
      cross == BigSub(BigMul(A, D), BigMul(B, C))
  IN  IF BigIsZero(lenSq) \/ BigLt(dot, Big(0))
      THEN BigLt(SqLen(A, B), limit)
      ELSE IF BigLt(lenSq, dot)
      THEN BigLt(SqLen(BigSub(A, C), BigSub(B, D)), limit)
      ELSE BigLt(BigMul(BigMul(cross, cross), BigMul(sx, sy)),
                 BigMul(limit, lenSq))

InBox(x, y, t) ==
  x >= t.x /\ x <= t.x + t.width /\ y >= t.y /\ y <= t.y + t.height

\* Coordinates are doubled in the rotated branch: the centre is x + width/2.
isPointInObject(x, y, obj) ==
  LET t == obj.transform IN
  IF obj.type = "drawn"
  THEN \/ \E i \in 1..(Len(obj.path) - 1) :
            NearSegment(x, y, obj.path[i], obj.path[i + 1], 15)
       \/ InBox(x, y, t)
  ELSE IF t.rotation = 0 THEN InBox(x, y, t)
  ELSE LET cx2 == 2 * t.x + t.width
           cy2 == 2 * t.y + t.height
           cos == Cos90(-t.rotation)
           sin == Sin90(-t.rotation)
           dx2 == 2 * x - cx2
           dy2 == 2 * y - cy2
           rx2 == dx2 * cos - dy2 * sin + cx2
           ry2 == dx2 * sin + dy2 * cos + cy2
       IN  /\ rx2 >= 2 * t.x /\ rx2 <= 2 * (t.x + t.width)
           /\ ry2 >= 2 * t.y /\ ry2 <= 2 * (t.y + t.height)

\* The point in the object's local frame, with both coordinates doubled.
transformPointToObjectSpace(x, y, obj) ==
  LET t == obj.transform
      dx2 == 2 * x - (2 * t.x + t.width)
      dy2 == 2 * y - (2 * t.y + t.height)
      cos == Cos90(-t.rotation)
      sin == Sin90(-t.rotation)
  IN  [x2 |-> dx2 * cos - dy2 * sin + t.width,
       y2 |-> dx2 * sin + dy2 * cos + t.height]

\* Inputs of the properties panel and of the file dialog.
PanelEdits ==
  {[field |-> "x", value |-> -50], [field |-> "x", value |-> 1150],
   [field |-> "width", value |-> 5], [field |-> "rotation", value |-> 90],
   [field |-> "strokeWidth", value |-> 0]}
\* Native pixel sizes; chosen so that the scaled size and the centred
\* position are whole numbers.
ImageSizes == {<<800, 600>>, <<6, 4>>}
BrushSizes == {1, 5}

(***************************************************************************)
(* App: history.                                                           *)
(***************************************************************************)
AppState ==
  [objects |-> objects, history |-> history, historyIndex |-> historyIndex,
   selectedIds |-> selectedIds]

\* The history array after addToHistory run in a closure holding (h, i).
addToHistory(h, i, newObjects) ==
  Append(SubSeq(h, 1, i + 1), [objects |-> newObjects])

\* updateObjects run in a closure holding history h and index i.
updateObjects(h, i, newObjects) ==
  /\ Len(newObjects) <= MaxObjects
  /\ i + 2 <= MaxHistory
  /\ objects' = newObjects
  /\ history' = addToHistory(h, i, newObjects)
  /\ historyIndex' = Len(addToHistory(h, i, newObjects)) - 1

\* Faulty variants of the undo and redo handlers: an undo that forgets
\* setObjects, a redo that keeps the selection, and a redo that clears the
\* selection even when there is nothing to redo.
handleUndoKeepsScene(s) ==
  IF s.historyIndex > 0
  THEN [s EXCEPT !.historyIndex = s.historyIndex - 1, !.selectedIds = <<>>]
  ELSE s

handleRedoKeepsSelection(s) ==
  IF s.historyIndex < Len(s.history) - 1
  THEN [s EXCEPT !.historyIndex = s.historyIndex + 1,
                 !.objects = s.history[(s.historyIndex + 1) + 1].objects]
  ELSE s

handleRedoAlwaysDeselects(s) ==
  IF s.historyIndex < Len(s.history) - 1
  THEN [s EXCEPT !.historyIndex = s.historyIndex + 1,
                 !.objects = s.history[(s.historyIndex + 1) + 1].objects,
                 !.selectedIds = <<>>]
  ELSE [s EXCEPT !.selectedIds = <<>>]

\* A faulty redo that moves the index and forgets setObjects.
handleRedoKeepsScene(s) ==
  IF s.historyIndex < Len(s.history) - 1
  THEN [s EXCEPT !.historyIndex = s.historyIndex + 1, !.selectedIds = <<>>]
  ELSE s

handleUndo(s) ==
  IF s.historyIndex > 0
  THEN [s EXCEPT !.historyIndex = s.historyIndex - 1,
                 !.objects = s.history[(s.historyIndex - 1) + 1].objects,
                 !.selectedIds = <<>>]
  ELSE s

handleRedo(s) ==
  IF s.historyIndex < Len(s.history) - 1
  THEN [s EXCEPT !.historyIndex = s.historyIndex + 1,
                 !.objects = s.history[(s.historyIndex + 1) + 1].objects,
                 !.selectedIds = <<>>]
  ELSE s

SetAppState(r) ==
  /\ objects' = r.objects
  /\ history' = r.history
  /\ historyIndex' = r.historyIndex
  /\ selectedIds' = r.selectedIds

Undo ==
  /\ SetAppState(handleUndo(AppState))
  /\ lastEvent' = "undo"
  /\ modifier' = FALSE
  /\ gesture' = Began
  /\ UNCHANGED <<currentTool, zoom, eraserSize, brushSize, canvasVars, envVars>>

Redo ==
  /\ SetAppState(handleRedo(AppState))
  /\ lastEvent' = "redo"
  /\ modifier' = FALSE
  /\ gesture' = Began
  /\ UNCHANGED <<currentTool, zoom, eraserSize, brushSize, canvasVars, envVars>>

\* Faulty variant of handleNew: the scene and the selection are emptied and
\* the index goes back to 0, but the snapshots are left in place.
NewKeepsSnapshots ==
  /\ objects' = <<>>
  /\ selectedIds' = <<>>
  /\ history' = history
  /\ historyIndex' = 0
  /\ lastEvent' = "new"
  /\ modifier' = FALSE
  /\ gesture' = NoGesture
  /\ UNCHANGED <<currentTool, zoom, eraserSize, brushSize, canvasVars, envVars>>

New ==
  /\ objects' = <<>>
  /\ selectedIds' = <<>>
  /\ history' = <<[objects |-> <<>>]>>
  /\ historyIndex' = 0
  /\ lastEvent' = "new"
  /\ modifier' = FALSE
  /\ gesture' = NoGesture
  /\ UNCHANGED <<currentTool, zoom, eraserSize, brushSize, canvasVars, envVars>>

(***************************************************************************)
(* App: tool and settings.                                                 *)
(***************************************************************************)
Tools == {"select", "brush", "eraser", "merge"} \cup ShapeTools

SetTool(t) ==
  /\ currentTool' = t
  /\ currentTool # t
  /\ lastEvent' = "setTool"
  /\ modifier' = FALSE
  /\ gesture' = NoGesture
  /\ UNCHANGED <<objects, selectedIds, zoom, history, historyIndex,
                 eraserSize, brushSize, canvasVars, envVars>>

SetBrushSize(b) ==
  /\ currentTool = "brush"
  /\ brushSize # b
  /\ brushSize' = b
  /\ lastEvent' = "setBrushSize"
  /\ modifier' = FALSE
  /\ gesture' = NoGesture
  /\ UNCHANGED <<currentTool, objects, selectedIds, zoom, history,
                 historyIndex, eraserSize, canvasVars, envVars>>

ZoomIn ==
  /\ zoom' = Min(200, zoom + 10)
  /\ lastEvent' = "zoomIn"
  /\ modifier' = FALSE
  /\ gesture' = NoGesture
  /\ UNCHANGED <<currentTool, objects, selectedIds, history, historyIndex,
                 eraserSize, brushSize, canvasVars, envVars>>

\* A faulty variant that saturates at 40.
ZoomOutTooFar ==
  /\ zoom' = Max(40, zoom - 10)
  /\ lastEvent' = "zoomOut"
  /\ modifier' = FALSE
  /\ gesture' = NoGesture
  /\ UNCHANGED <<currentTool, objects, selectedIds, history, historyIndex,
                 eraserSize, brushSize, canvasVars, envVars>>

ZoomOut ==
  /\ zoom' = Max(50, zoom - 10)
  /\ lastEvent' = "zoomOut"
  /\ modifier' = FALSE
  /\ gesture' = NoGesture
  /\ UNCHANGED <<currentTool, objects, selectedIds, history, historyIndex,
                 eraserSize, brushSize, canvasVars, envVars>>

ResetZoom ==
  /\ zoom' = 100
  /\ lastEvent' = "resetZoom"
  /\ modifier' = FALSE
  /\ gesture' = NoGesture
  /\ UNCHANGED <<currentTool, objects, selectedIds, history, historyIndex,
                 eraserSize, brushSize, canvasVars, envVars>>

(***************************************************************************)
(* App: image import.  handleOpenImage starts the read; img.onload runs    *)
(* later, in the closure of the render in which the file was chosen.       *)
(***************************************************************************)
OpenImage(size) ==
  /\ Len(pendingImages) < MaxPending
  /\ pendingImages' = Append(pendingImages,
        [objects |-> objects, history |-> history,
         historyIndex |-> historyIndex, width |-> size[1], height |-> size[2]])
  /\ lastEvent' = "openImage"
  /\ modifier' = FALSE
  /\ gesture' = NoGesture
  /\ UNCHANGED <<appVars, canvasVars, now>>

\* The displayed size: capped at 400 x 400 with the aspect ratio kept.
ImageFit(w, h) ==
  IF w > 400 \/ h > 400
  THEN IF h <= w THEN [width |-> 400, height |-> (h * 400) \div w]
       ELSE [width |-> (w * 400) \div h, height |-> 400]
  ELSE [width |-> w, height |-> h]

ImageObject(c, t) ==
  LET f == ImageFit(c.width, c.height) IN
  NewObject(<<"image", t>>, "image",
            Transform((1200 - f.width) \div 2, (800 - f.height) \div 2,
                      f.width, f.height, 0),
            0, <<>>, c.width, c.height, <<>>)

ImageLoaded(k) ==
  LET c == pendingImages[k] IN
  \E t \in DateNow :
    /\ updateObjects(c.history, c.historyIndex,
                     Append(c.objects, ImageObject(c, t)))
    /\ selectedIds' = <<<<"image", t>>>>
    /\ now' = t
    /\ pendingImages' = [j \in 1..(Len(pendingImages) - 1) |->
                           IF j < k THEN pendingImages[j]
                           ELSE pendingImages[j + 1]]
    /\ lastEvent' = "imageLoaded"
    /\ modifier' = FALSE
    /\ gesture' = NoGesture
    /\ UNCHANGED <<currentTool, zoom, eraserSize, brushSize, canvasVars>>

(***************************************************************************)
(* App: property edits, merge, delete.                                     *)
(***************************************************************************)
RECURSIVE updateObjectStyle(_, _)
updateObjectStyle(obj, styleUpdates) ==
  IF obj.type = "merged"
  THEN [obj EXCEPT !.style = styleUpdates,
                   !.children = [j \in 1..Len(obj.children) |->
                                  updateObjectStyle(obj.children[j], styleUpdates)]]
  ELSE [obj EXCEPT !.style = styleUpdates]

\* The updates object an input of the properties panel passes on.
PanelUpdate(sel, edit) ==
  CASE edit.field = "x" ->
         [transform |-> Some([sel.transform EXCEPT !.x = edit.value]), style |-> None]
    [] edit.field = "y" ->
         [transform |-> Some([sel.transform EXCEPT !.y = edit.value]), style |-> None]
    [] edit.field = "width" ->
         [transform |-> Some([sel.transform EXCEPT !.width = Max(10, edit.value)]),
          style |-> None]
    [] edit.field = "height" ->
         [transform |-> Some([sel.transform EXCEPT !.height = Max(10, edit.value)]),
          style |-> None]
    [] edit.field = "rotation" ->
         [transform |-> Some([sel.transform EXCEPT !.rotation = edit.value]),
          style |-> None]
    [] edit.field = "strokeWidth" ->
         [transform |-> None,
          style |-> Some([sel.style EXCEPT !.strokeWidth = Max(0, edit.value)])]

\* One object after handleObjectUpdate's map callback.
ApplyUpdate(obj, id, updates) ==
  IF obj.id = id
  THEN IF IsSome(updates.style) /\ obj.type = "merged"
       THEN updateObjectStyle(obj, Val(updates.style))
       ELSE [obj EXCEPT
               !.transform = IF IsSome(updates.transform)
                             THEN Val(updates.transform) ELSE @,
               !.style = IF IsSome(updates.style) THEN Val(updates.style) ELSE @]
  ELSE obj

\* An edit in the properties panel.  The panel shows its inputs when exactly
\* one id is selected, an object has that id and the tool is neither the
\* eraser nor merge; the stroke-width input is disabled for an image.
ObjectUpdate(edit) ==
  /\ Len(selectedIds) = 1
  /\ currentTool \notin {"eraser", "merge"}
  /\ LET sel == First(SelectSeq(objects, LAMBDA o : o.id = selectedIds[1])) IN
     /\ IsSome(sel)
     /\ ~(edit.field = "strokeWidth" /\ Val(sel).type = "image")
     /\ updateObjects(history, historyIndex,
          [j \in 1..Len(objects) |->
             ApplyUpdate(objects[j], selectedIds[1],
                         PanelUpdate(Val(sel), edit))])
  /\ lastEvent' = "objectUpdate"
  /\ modifier' = FALSE
  /\ gesture' = NoGesture
  /\ UNCHANGED <<currentTool, selectedIds, zoom, eraserSize, brushSize,
                 canvasVars, envVars>>

\* handleObjectUpdate called with an updates object, whatever is selected.
DirectUpdates ==
  {[transform |-> Some(Transform(0, 0, 50, 50, 0)), style |-> None]}

UpdateObject(updates) ==
  /\ IF Len(selectedIds) # 1
     THEN UNCHANGED <<objects, history, historyIndex>>
     ELSE updateObjects(history, historyIndex,
            [j \in 1..Len(objects) |->
               ApplyUpdate(objects[j], selectedIds[1], updates)])
  /\ lastEvent' = "updateObject"
  /\ modifier' = FALSE
  /\ gesture' = NoGesture
  /\ UNCHANGED <<currentTool, selectedIds, zoom, eraserSize, brushSize,
                 canvasVars, envVars>>

RECURSIVE SeqMin(_), SeqMax(_)
SeqMin(s) == IF Len(s) = 1 THEN s[1] ELSE Min(s[1], SeqMin(Tail(s)))
SeqMax(s) == IF Len(s) = 1 THEN s[1] ELSE Max(s[1], SeqMax(Tail(s)))

\* A faulty variant that moves a child's transform and forgets its path.
MergeChildKeepsPath(obj, cx, cy) ==
  [obj EXCEPT
     !.transform = [obj.transform EXCEPT !.x = @ - cx, !.y = @ - cy]]

\* A selected object re-expressed relative to the group's origin.
MergeChild(obj, cx, cy) ==
  [obj EXCEPT
     !.transform = [obj.transform EXCEPT !.x = @ - cx, !.y = @ - cy],
     !.path = IF obj.type = "drawn"
              THEN [j \in 1..Len(obj.path) |->
                      [x |-> RSub(obj.path[j].x, RInt(cx)),
                       y |-> RSub(obj.path[j].y, RInt(cy))]]
              ELSE @]

MergedObject(selectedObjects, t) ==
  LET n == Len(selectedObjects)
      minX == SeqMin([j \in 1..n |-> selectedObjects[j].transform.x])
      minY == SeqMin([j \in 1..n |-> selectedObjects[j].transform.y])
      maxX == SeqMax([j \in 1..n |-> selectedObjects[j].transform.x
                                      + selectedObjects[j].transform.width])
      maxY == SeqMax([j \in 1..n |-> selectedObjects[j].transform.y
                                      + selectedObjects[j].transform.height])
      mergedWidth == maxX - minX
      mergedHeight == maxY - minY
      constrainedX == Max(0, Min(minX, 1200 - mergedWidth))
      constrainedY == Max(0, Min(minY, 800 - mergedHeight))
  IN  NewObject(<<"merged", t>>, "merged",
                Transform(constrainedX, constrainedY, mergedWidth, mergedHeight, 0),
                2, <<>>, mergedWidth, mergedHeight,
                [j \in 1..n |->
                   MergeChild(selectedObjects[j], constrainedX, constrainedY)])

\* A faulty variant that puts the group below the remaining objects.
MergeGroupFirst ==
  /\ IF Len(selectedIds) < 2
     THEN UNCHANGED <<objects, history, historyIndex, selectedIds, now>>
     ELSE LET selectedObjects ==
                SelectSeq(objects, LAMBDA o : Includes(selectedIds, o.id))
              remainingObjects ==
                SelectSeq(objects, LAMBDA o : ~Includes(selectedIds, o.id))
          IN  \E t \in DateNow :
                /\ selectedObjects # <<>>
                /\ updateObjects(history, historyIndex,
                      <<MergedObject(selectedObjects, t)>> \o remainingObjects)
                /\ selectedIds' = <<<<"merged", t>>>>
                /\ now' = t
  /\ lastEvent' = "merge"
  /\ modifier' = FALSE
  /\ gesture' = NoGesture
  /\ UNCHANGED <<currentTool, zoom, eraserSize, brushSize, canvasVars,
                 pendingImages>>

Merge ==
  /\ IF Len(selectedIds) < 2
     THEN UNCHANGED <<objects, history, historyIndex, selectedIds, now>>
     ELSE LET selectedObjects ==
                SelectSeq(objects, LAMBDA o : Includes(selectedIds, o.id))
              remainingObjects ==
                SelectSeq(objects, LAMBDA o : ~Includes(selectedIds, o.id))
          IN  \E t \in DateNow :
                /\ selectedObjects # <<>>
                /\ updateObjects(history, historyIndex,
                      Append(remainingObjects, MergedObject(selectedObjects, t)))
                /\ selectedIds' = <<<<"merged", t>>>>
                /\ now' = t
  /\ lastEvent' = "merge"
  /\ modifier' = FALSE
  /\ gesture' = NoGesture
  /\ UNCHANGED <<currentTool, zoom, eraserSize, brushSize, canvasVars,
                 pendingImages>>

\* A faulty variant without the early return on an empty selection.
DeleteAlwaysCommits ==
  /\ updateObjects(history, historyIndex,
        SelectSeq(objects, LAMBDA o : ~Includes(selectedIds, o.id)))
  /\ selectedIds' = <<>>
  /\ lastEvent' = "delete"
  /\ modifier' = FALSE
  /\ gesture' = NoGesture
  /\ UNCHANGED <<currentTool, zoom, eraserSize, brushSize, canvasVars, envVars>>

\* A faulty variant that leaves the deleted ids selected.
DeleteKeepsSelection ==
  /\ IF Len(selectedIds) = 0
     THEN UNCHANGED <<objects, history, historyIndex>>
     ELSE updateObjects(history, historyIndex,
            SelectSeq(objects, LAMBDA o : ~Includes(selectedIds, o.id)))
  /\ lastEvent' = "delete"
  /\ modifier' = FALSE
  /\ gesture' = NoGesture
  /\ UNCHANGED <<currentTool, selectedIds, zoom, eraserSize, brushSize,
                 canvasVars, envVars>>

Delete ==
  /\ IF Len(selectedIds) = 0
     THEN UNCHANGED <<objects, history, historyIndex, selectedIds>>
     ELSE /\ updateObjects(history, historyIndex,
               SelectSeq(objects, LAMBDA o : ~Includes(selectedIds, o.id)))
          /\ selectedIds' = <<>>
  /\ lastEvent' = "delete"
  /\ modifier' = FALSE
  /\ gesture' = NoGesture
  /\ UNCHANGED <<currentTool, zoom, eraserSize, brushSize, canvasVars, envVars>>

(***************************************************************************)
(* Canvas: pointer-down.                                                   *)
(***************************************************************************)
\* objects.find(obj => selectedIds.includes(obj.id))
Selected == First(SelectSeq(objects, LAMBDA o : Includes(selectedIds, o.id)))

\* The resize handles in the order they are tested, in doubled local
\* coordinates.
Handles(width, height) ==
  <<[x2 |-> 0, y2 |-> 0, id |-> "nw"],
    [x2 |-> width, y2 |-> 0, id |-> "n"],
    [x2 |-> 2 * width, y2 |-> 0, id |-> "ne"],
    [x2 |-> 2 * width, y2 |-> height, id |-> "e"],
    [x2 |-> 2 * width, y2 |-> 2 * height, id |-> "se"],
    [x2 |-> width, y2 |-> 2 * height, id |-> "s"],
    [x2 |-> 0, y2 |-> 2 * height, id |-> "sw"],
    [x2 |-> 0, y2 |-> height, id |-> "w"]>>

OnRotateHandle(pos, sel) ==
  LET localPos == transformPointToObjectSpace(pos.x, pos.y, sel) IN
  /\ Abs(localPos.x2 - sel.transform.width) < 2 * 10
  /\ Abs(localPos.y2 - 2 * (-30)) < 2 * 10

\* The first resize handle within handleSize * 1.5 of the pointer.
HandleAt(pos, sel) ==
  LET localPos == transformPointToObjectSpace(pos.x, pos.y, sel) IN
  First(SelectSeq(Handles(sel.transform.width, sel.transform.height),
                  LAMBDA h : /\ Abs(localPos.x2 - h.x2) < 2 * 12
                             /\ Abs(localPos.y2 - h.y2) < 2 * 12))

\* A faulty search that finds the lowest object under the pointer.
ClickedObjLowest(pos) ==
  First(SelectSeq(objects, LAMBDA o : isPointInObject(pos.x, pos.y, o)))

\* [...objects].reverse().find(obj => isPointInObject(pos.x, pos.y, obj))
ClickedObj(pos) ==
  First(SelectSeq(Reverse(objects),
                  LAMBDA o : isPointInObject(pos.x, pos.y, o)))

\* What the select tool does with a pointer-down, as the new values of
\* the state it writes.
SelectDown(pos, ctrl) ==
  LET keep == [selectedIds |-> selectedIds, dragStart |-> dragStart,
               dragOffset |-> dragOffset, resizeHandle |-> resizeHandle,
               marqueeStart |-> marqueeStart, marqueeCurrent |-> marqueeCurrent,
               kind |-> "none"]
      sel == Selected
      clicked == ClickedObj(pos)
  IN
  IF IsSome(sel) /\ OnRotateHandle(pos, Val(sel))
  THEN [keep EXCEPT !.resizeHandle = Some("rotate"), !.dragStart = Some(pos),
                    !.kind = "rotate"]
  ELSE IF IsSome(sel) /\ IsSome(HandleAt(pos, Val(sel)))
  THEN [keep EXCEPT !.resizeHandle = Some(Val(HandleAt(pos, Val(sel))).id),
                    !.dragStart = Some(pos), !.kind = "resize"]
  ELSE IF IsSome(sel) /\ isPointInObject(pos.x, pos.y, Val(sel))
  THEN [keep EXCEPT !.dragStart = Some(pos),
                    !.dragOffset = Some(Pt(pos.x - Val(sel).transform.x,
                                           pos.y - Val(sel).transform.y)),
                    !.kind = "drag"]
  ELSE IF IsSome(clicked)
  THEN IF ctrl
       THEN IF Includes(selectedIds, Val(clicked).id)
            THEN [keep EXCEPT !.selectedIds =
                    SelectSeq(selectedIds, LAMBDA id : id # Val(clicked).id)]
            ELSE [keep EXCEPT !.selectedIds = Append(selectedIds, Val(clicked).id)]
       ELSE [keep EXCEPT !.selectedIds = <<Val(clicked).id>>,
                         !.dragStart = Some(pos),
                         !.dragOffset = Some(Pt(pos.x - Val(clicked).transform.x,
                                                pos.y - Val(clicked).transform.y)),
                         !.kind = "drag"]
  ELSE [keep EXCEPT !.selectedIds = IF ctrl THEN selectedIds ELSE <<>>,
                    !.marqueeStart = Some(pos), !.marqueeCurrent = Some(pos)]

MouseDown(pos, ctrl) ==
  /\ ~(pos.x < 0 \/ pos.x > CANVAS_WIDTH \/ pos.y < 0 \/ pos.y > CANVAS_HEIGHT)
  /\ lastEvent' = "mouseDown"
  /\ modifier' = ctrl
  /\ UNCHANGED <<currentTool, objects, zoom, history, historyIndex,
                 eraserSize, brushSize, envVars>>
  /\ CASE currentTool \in {"brush", "eraser"} ->
            /\ isDrawing' = TRUE
            /\ currentPath' = <<pos>>
            /\ gesture' = NoGesture
            /\ UNCHANGED <<selectedIds, dragStart, dragOffset, resizeHandle,
                           marqueeStart, marqueeCurrent, shapeStart, shapeCurrent>>
       [] currentTool \in ShapeTools ->
            /\ shapeStart' = Some(pos)
            /\ shapeCurrent' = Some(pos)
            /\ gesture' = NoGesture
            /\ UNCHANGED <<selectedIds, isDrawing, currentPath, dragStart,
                           dragOffset, resizeHandle, marqueeStart, marqueeCurrent>>
       [] currentTool = "select" ->
            LET r == SelectDown(pos, ctrl) IN
            /\ selectedIds' = r.selectedIds
            /\ dragStart' = r.dragStart
            /\ dragOffset' = r.dragOffset
            /\ resizeHandle' = r.resizeHandle
            /\ marqueeStart' = r.marqueeStart
            /\ marqueeCurrent' = r.marqueeCurrent
            /\ gesture' = IF r.kind = "none" THEN NoGesture
                          ELSE [Began EXCEPT !.kind = r.kind]
            /\ UNCHANGED <<isDrawing, currentPath, shapeStart, shapeCurrent>>
       [] OTHER ->
            /\ gesture' = NoGesture
            /\ UNCHANGED <<selectedIds, canvasVars>>

(***************************************************************************)
(* Canvas: the eraser.  A parent transform is None at the top level and    *)
(* otherwise holds the rationals x, y, scaleX, scaleY and the rotation.    *)
(***************************************************************************)
\* One erase sample in the local frame of a leaf nested in a group.
EraseSampleNested(p, t, pt, size) ==
  LET centerX == RAdd(pt.x, RMul(RAdd(RInt(t.x), Rat(t.width, 2)), pt.scaleX))
      centerY == RAdd(pt.y, RMul(RAdd(RInt(t.y), Rat(t.height, 2)), pt.scaleY))
      cos == RInt(Cos90(-pt.rotation))
      sin == RInt(Sin90(-pt.rotation))
      dx == RSub(RInt(p.x), centerX)
      dy == RSub(RInt(p.y), centerY)
      rotatedX == RSub(RMul(dx, cos), RMul(dy, sin))
      rotatedY == RAdd(RMul(dx, sin), RMul(dy, cos))
      localX == RAdd(RDiv(rotatedX, pt.scaleX), Rat(t.width, 2))
      localY == RAdd(RDiv(rotatedY, pt.scaleY), Rat(t.height, 2))
  IN  [x |-> RDiv(localX, RInt(t.width)),
       y |-> RDiv(localY, RInt(t.height)),
       size |-> RDiv(Rat(size, Min(t.width, t.height)), pt.scaleX)]

\* One erase sample in the frame of a top-level leaf.
EraseSampleTop(p, t, size) ==
  [x |-> Rat(p.x - t.x, t.width),
   y |-> Rat(p.y - t.y, t.height),
   size |-> Rat(size, Min(t.width, t.height))]

\* A faulty variant that hands down the group's own scale, not the product
\* with the scale of its ancestors.
GroupAbsOwnScale(obj, parent) ==
  LET t == obj.transform
      originalWidth == IF obj.originalWidth # 0 THEN obj.originalWidth ELSE t.width
      originalHeight == IF obj.originalHeight # 0 THEN obj.originalHeight ELSE t.height
      scaleX == Rat(t.width, originalWidth)
      scaleY == Rat(t.height, originalHeight)
  IN  IF IsSome(parent)
      THEN [x |-> RAdd(Val(parent).x, RMul(RInt(t.x), Val(parent).scaleX)),
            y |-> RAdd(Val(parent).y, RMul(RInt(t.y), Val(parent).scaleY)),
            rotation |-> Val(parent).rotation + t.rotation,
            scaleX |-> scaleX, scaleY |-> scaleY]
      ELSE [x |-> RInt(t.x), y |-> RInt(t.y), rotation |-> t.rotation,
            scaleX |-> scaleX, scaleY |-> scaleY]

\* The absolute transform a group hands down to its children.
GroupAbs(obj, parent) ==
  LET t == obj.transform
      originalWidth == IF obj.originalWidth # 0 THEN obj.originalWidth ELSE t.width
      originalHeight == IF obj.originalHeight # 0 THEN obj.originalHeight ELSE t.height
      scaleX == Rat(t.width, originalWidth)
      scaleY == Rat(t.height, originalHeight)
  IN  IF IsSome(parent)
      THEN [x |-> RAdd(Val(parent).x, RMul(RInt(t.x), Val(parent).scaleX)),
            y |-> RAdd(Val(parent).y, RMul(RInt(t.y), Val(parent).scaleY)),
            rotation |-> Val(parent).rotation + t.rotation,
            scaleX |-> RMul(Val(parent).scaleX, scaleX),
            scaleY |-> RMul(Val(parent).scaleY, scaleY)]
      ELSE [x |-> RInt(t.x), y |-> RInt(t.y), rotation |-> t.rotation,
            scaleX |-> scaleX, scaleY |-> scaleY]

\* The pointer re-projected into the group's local unscaled frame.
GroupLocal(obj, abs, currentPos) ==
  LET t == obj.transform
      originalWidth == IF obj.originalWidth # 0 THEN obj.originalWidth ELSE t.width
      originalHeight == IF obj.originalHeight # 0 THEN obj.originalHeight ELSE t.height
      centerX == RAdd(abs.x, Rat(t.width, 2))
      centerY == RAdd(abs.y, Rat(t.height, 2))
      dx == RSub(RInt(currentPos.x), centerX)
      dy == RSub(RInt(currentPos.y), centerY)
      cos == RInt(Cos90(-abs.rotation))
      sin == RInt(Sin90(-abs.rotation))
      rotatedX == RSub(RMul(dx, cos), RMul(dy, sin))
      rotatedY == RAdd(RMul(dx, sin), RMul(dy, cos))
  IN  [x |-> RAdd(RDiv(rotatedX, abs.scaleX), Rat(originalWidth, 2)),
       y |-> RAdd(RDiv(rotatedY, abs.scaleY), Rat(originalHeight, 2))]

RECURSIVE applyEraserToObject(_, _, _, _, _)
applyEraserToObject(obj, path, currentPos, size, parent) ==
  IF obj.type = "merged"
  THEN LET abs == GroupAbs(obj, parent)
           local == GroupLocal(obj, abs, currentPos)
           Over(child) ==
             LET c == child.transform IN
             /\ RLe(RInt(c.x), local.x) /\ RLe(local.x, RInt(c.x + c.width))
             /\ RLe(RInt(c.y), local.y) /\ RLe(local.y, RInt(c.y + c.height))
       IN  [obj EXCEPT !.children =
              [j \in 1..Len(obj.children) |->
                 IF Over(obj.children[j])
                 THEN applyEraserToObject(obj.children[j], path, currentPos,
                                          size, Some(abs))
                 ELSE obj.children[j]]]
  ELSE LET samples == Append(path, currentPos)
           localPath ==
             [j \in 1..Len(samples) |->
                IF IsSome(parent)
                THEN EraseSampleNested(samples[j], obj.transform, Val(parent), size)
                ELSE EraseSampleTop(samples[j], obj.transform, size)]
       IN  [obj EXCEPT !.erasedAreas = Append(@, localPath)]

\* A faulty variant in which an erased object keeps only its newest area.
EraseMoveKeepsNewest(objs, path, pos, size) ==
  [j \in 1..Len(objs) |->
     IF isPointInObject(pos.x, pos.y, objs[j])
     THEN LET erased == applyEraserToObject(objs[j], path, pos, size, None)
          IN  [erased EXCEPT !.erasedAreas =
                 IF @ = <<>> THEN @ ELSE <<@[Len(@)]>>]
     ELSE objs[j]]

\* A faulty variant that filters the list instead of mapping it: the objects
\* the pointer is not over are dropped.
EraseMoveDropsMissed(objs, path, pos, size) ==
  LET hit == SelectSeq(objs, LAMBDA o : isPointInObject(pos.x, pos.y, o))
  IN  [j \in 1..Len(hit) |-> applyEraserToObject(hit[j], path, pos, size, None)]

\* The object list after a pointer-move of the eraser at pos.
EraseMove(objs, path, pos, size) ==
  [j \in 1..Len(objs) |->
     IF isPointInObject(pos.x, pos.y, objs[j])
     THEN applyEraserToObject(objs[j], path, pos, size, None)
     ELSE objs[j]]

(***************************************************************************)
(* Canvas: pointer-move.                                                   *)
(***************************************************************************)
HasN(h) == h \in {"nw", "n", "ne"}
HasS(h) == h \in {"sw", "s", "se"}
HasW(h) == h \in {"nw", "w", "sw"}
HasE(h) == h \in {"ne", "e", "se"}

\* The transform after one resize pointer-move by (dx, dy).
ResizeTransform(t, h, dx, dy) ==
  LET y1 == IF HasN(h) THEN t.y + dy ELSE t.y
      h1 == IF HasN(h) THEN t.height - dy
            ELSE IF HasS(h) THEN t.height + dy ELSE t.height
      x1 == IF HasW(h) THEN t.x + dx ELSE t.x
      w1 == IF HasW(h) THEN t.width - dx
            ELSE IF HasE(h) THEN t.width + dx ELSE t.width
      w2 == IF w1 < 10 THEN 10 ELSE w1
      h2 == IF h1 < 10 THEN 10 ELSE h1
      c == constrainToCanvas(x1, y1, w2, h2)
  IN  [t EXCEPT !.x = c.x, !.y = c.y, !.width = c.width, !.height = c.height]

\* A Drawn object's path after its transform went from old to new.
ResizePath(path, old, new) ==
  LET scaleX == Rat(new.width, old.width)
      scaleY == Rat(new.height, old.height)
      offsetX == RInt(new.x - old.x)
      offsetY == RInt(new.y - old.y)
  IN  [j \in 1..Len(path) |->
         [x |-> RAdd(RAdd(RInt(old.x),
                          RMul(RSub(path[j].x, RInt(old.x)), scaleX)), offsetX),
          y |-> RAdd(RAdd(RInt(old.y),
                          RMul(RSub(path[j].y, RInt(old.y)), scaleY)), offsetY)]]

\* A faulty resize that rebuilds the object without its erase mask.
ResizeObjectDropsMask(obj, newTransform, oldTransform) ==
  [obj EXCEPT !.transform = newTransform, !.erasedAreas = <<>>]

ResizeObject(obj, newTransform, oldTransform) ==
  [obj EXCEPT !.transform = newTransform,
              !.path = IF obj.type = "drawn"
                       THEN ResizePath(@, oldTransform, newTransform) ELSE @]

\* A faulty drag that moves the path by the pointer's delta, not by the
\* clamped one.
MoveObjectPathUnclamped(obj, c, deltaX, deltaY) ==
  [obj EXCEPT !.transform = [@ EXCEPT !.x = c.x, !.y = c.y],
              !.path = IF obj.type = "drawn"
                       THEN [j \in 1..Len(obj.path) |->
                               [x |-> RAdd(obj.path[j].x,
                                           RInt(Val(marqueeCurrent').x
                                                - Val(dragOffset).x
                                                - obj.transform.x)),
                                y |-> RAdd(obj.path[j].y,
                                           RInt(Val(marqueeCurrent').y
                                                - Val(dragOffset).y
                                                - obj.transform.y))]]
                       ELSE @]

\* The object after a drag put its origin at (c.x, c.y); the deltas are
\* those of the selected object.
MoveObject(obj, c, deltaX, deltaY) ==
  [obj EXCEPT !.transform = [@ EXCEPT !.x = c.x, !.y = c.y],
              !.path = IF obj.type = "drawn"
                       THEN [j \in 1..Len(obj.path) |->
                               [x |-> RAdd(obj.path[j].x, RInt(deltaX)),
                                y |-> RAdd(obj.path[j].y, RInt(deltaY))]]
                       ELSE @]

\* atan2(pos - centre) in degrees + 90, for a pointer on one of the
\* centre's axes (dx2, dy2: the doubled offsets from the centre).
RotateAngle(dx2, dy2) ==
  CASE dy2 = 0 /\ dx2 >= 0 -> 90
    [] dy2 = 0 /\ dx2 < 0 -> 270
    [] dx2 = 0 /\ dy2 > 0 -> 180
    [] dx2 = 0 /\ dy2 < 0 -> 0

\* The object list after a pointer-move of the select tool with a gesture
\* under way on the selected object sel.
SelectMove(pos, sel) ==
  IF IsSome(resizeHandle)
  THEN IF Val(resizeHandle) = "rotate"
       THEN LET dx2 == 2 * pos.x - (2 * sel.transform.x + sel.transform.width)
                dy2 == 2 * pos.y - (2 * sel.transform.y + sel.transform.height)
            IN  [j \in 1..Len(objects) |->
                   IF objects[j].id = sel.id
                   THEN [objects[j] EXCEPT
                           !.transform.rotation = RotateAngle(dx2, dy2)]
                   ELSE objects[j]]
       ELSE LET newTransform ==
                  ResizeTransform(sel.transform, Val(resizeHandle),
                                  pos.x - Val(dragStart).x,
                                  pos.y - Val(dragStart).y)
            IN  [j \in 1..Len(objects) |->
                   IF objects[j].id = sel.id
                   THEN ResizeObject(objects[j], newTransform, sel.transform)
                   ELSE objects[j]]
  ELSE LET constrained ==
             constrainToCanvas(pos.x - Val(dragOffset).x,
                               pos.y - Val(dragOffset).y,
                               sel.transform.width, sel.transform.height)
           deltaX == constrained.x - sel.transform.x
           deltaY == constrained.y - sel.transform.y
       IN  [j \in 1..Len(objects) |->
              IF objects[j].id = sel.id
              THEN MoveObject(objects[j], constrained, deltaX, deltaY)
              ELSE objects[j]]

\* The states in which a pointer-move takes the "Move object" branch and
\* the "Resize" branch of handleMouseMove.
Dragging ==
  /\ currentTool = "select" /\ IsSome(dragStart)
  /\ Len(selectedIds) > 0 /\ ~IsSome(marqueeStart)
  /\ IsSome(Selected)
  /\ ~IsSome(resizeHandle) /\ IsSome(dragOffset)

Resizing ==
  /\ currentTool = "select" /\ IsSome(dragStart)
  /\ Len(selectedIds) > 0 /\ ~IsSome(marqueeStart)
  /\ IsSome(Selected)
  /\ IsSome(resizeHandle) /\ Val(resizeHandle) # "rotate"

\* The pointer directions the model delivers while rotating: on an axis
\* through the centre, where the angle is a multiple of 90 degrees.
RotateInput(pos, sel) ==
  \/ 2 * pos.x = 2 * sel.transform.x + sel.transform.width
  \/ 2 * pos.y = 2 * sel.transform.y + sel.transform.height

MouseMove(pos) ==
  /\ lastEvent' = "mouseMove"
  /\ modifier' = FALSE
  /\ marqueeCurrent' = Some(pos)
  /\ shapeCurrent' = IF IsSome(shapeStart) THEN Some(pos) ELSE shapeCurrent
  /\ UNCHANGED <<currentTool, selectedIds, zoom, eraserSize, brushSize,
                 isDrawing, dragOffset, resizeHandle, marqueeStart, shapeStart,
                 envVars>>
  /\ CASE currentTool = "brush" /\ isDrawing ->
            /\ Len(currentPath) < MaxPath
            /\ currentPath' = Append(currentPath, pos)
            /\ UNCHANGED <<objects, history, historyIndex, dragStart, gesture>>
       [] currentTool = "eraser" /\ isDrawing ->
            /\ updateObjects(history, historyIndex,
                 EraseMove(objects, currentPath, pos, eraserSize))
            /\ currentPath' = <<pos>>
            /\ UNCHANGED <<dragStart, gesture>>
       [] /\ currentTool = "select" /\ IsSome(dragStart)
          /\ Len(selectedIds) > 0 /\ ~IsSome(marqueeStart)
          /\ IsSome(Selected) ->
            /\ IsSome(resizeHandle) \/ IsSome(dragOffset)
            /\ (IsSome(resizeHandle) /\ Val(resizeHandle) = "rotate")
                 => RotateInput(pos, Val(Selected))
            /\ updateObjects(history, historyIndex, SelectMove(pos, Val(Selected)))
            /\ dragStart' = IF IsSome(resizeHandle) /\ Val(resizeHandle) # "rotate"
                            THEN Some(pos) ELSE dragStart
            /\ gesture' = IF gesture.kind = "none" THEN gesture
                          ELSE [gesture EXCEPT
                                  !.moves = Min(@ + 1, 2),
                                  !.from = Some(Val(Selected)),
                                  !.delta = Some(Pt(pos.x - Val(dragStart).x,
                                                    pos.y - Val(dragStart).y))]
            /\ UNCHANGED currentPath
       [] OTHER ->
            UNCHANGED <<objects, history, historyIndex, currentPath, dragStart,
                        gesture>>

(***************************************************************************)
(* Canvas: pointer-up and pointer-leave.                                   *)
(***************************************************************************)
\* A faulty commit whose box is padded on the left and top only.
DrawnObjectHalfPadded(path, padding, t) ==
  LET n == Len(path)
      minX == SeqMin([j \in 1..n |-> path[j].x])
      minY == SeqMin([j \in 1..n |-> path[j].y])
      maxX == SeqMax([j \in 1..n |-> path[j].x])
      maxY == SeqMax([j \in 1..n |-> path[j].y])
  IN  NewObject(<<"drawn", t>>, "drawn",
                Transform(minX - padding, minY - padding,
                          maxX - minX + padding, maxY - minY + padding, 0),
                padding, [j \in 1..n |-> RPt(path[j])], 0, 0, <<>>)

DrawnObject(path, padding, t) ==
  LET n == Len(path)
      minX == SeqMin([j \in 1..n |-> path[j].x])
      minY == SeqMin([j \in 1..n |-> path[j].y])
      maxX == SeqMax([j \in 1..n |-> path[j].x])
      maxY == SeqMax([j \in 1..n |-> path[j].y])
  IN  NewObject(<<"drawn", t>>, "drawn",
                Transform(minX - padding, minY - padding,
                          maxX - minX + padding * 2, maxY - minY + padding * 2, 0),
                padding, [j \in 1..n |-> RPt(path[j])], 0, 0, <<>>)

\* Faulty variants: a rect anchored at the draft's start point, and a
\* minimum size that lets a 10-pixel draft through.
ShapeRectFromStart(a, b) ==
  [x |-> a.x, y |-> a.y,
   width |-> Abs(b.x - a.x), height |-> Abs(b.y - a.y)]

ShapeBigEnoughInclusive(r) == r.width >= 10 /\ r.height >= 10

\* Whether a released draft is committed.
ShapeBigEnough(r) == r.width > 10 /\ r.height > 10

ShapeRect(a, b) ==
  [x |-> Min(a.x, b.x), y |-> Min(a.y, b.y),
   width |-> Abs(b.x - a.x), height |-> Abs(b.y - a.y)]

ShapeObject(tool, r, t) ==
  LET c == constrainToCanvas(r.x, r.y, r.width, r.height) IN
  NewObject(<<tool, t>>, tool, Transform(c.x, c.y, c.width, c.height, 0),
            2, <<>>, 0, 0, <<>>)

\* The ids a marquee from a to b selects.
MarqueeIds(a, b) ==
  LET x1 == Min(a.x, b.x)
      y1 == Min(a.y, b.y)
      x2 == Max(a.x, b.x)
      y2 == Max(a.y, b.y)
      inside == SelectSeq(objects, LAMBDA o :
                  /\ o.transform.x >= x1 /\ o.transform.y >= y1
                  /\ o.transform.x + o.transform.width <= x2
                  /\ o.transform.y + o.transform.height <= y2)
  IN  [j \in 1..Len(inside) |-> inside[j].id]

MouseUp(pos, ctrl) ==
  /\ lastEvent' = "mouseUp"
  /\ modifier' = ctrl
  /\ isDrawing' = FALSE
  /\ dragStart' = None
  /\ resizeHandle' = None
  /\ gesture' = [gesture EXCEPT !.from = None, !.delta = None]
  /\ UNCHANGED <<currentTool, zoom, eraserSize, brushSize, dragOffset,
                 pendingImages>>
  /\ CASE currentTool = "brush" /\ isDrawing /\ Len(currentPath) > 1 ->
            \E t \in DateNow :
              /\ updateObjects(history, historyIndex,
                   Append(objects, DrawnObject(currentPath, brushSize, t)))
              /\ now' = t
              /\ currentPath' = <<>>
              /\ UNCHANGED <<selectedIds, marqueeStart, marqueeCurrent,
                             shapeStart, shapeCurrent>>
       [] /\ ~(currentTool = "brush" /\ isDrawing /\ Len(currentPath) > 1)
          /\ currentTool \in ShapeTools
          /\ IsSome(shapeStart) /\ IsSome(shapeCurrent) ->
            LET r == ShapeRect(Val(shapeStart), Val(shapeCurrent)) IN
            /\ IF ShapeBigEnough(r)
               THEN \E t \in DateNow :
                      /\ updateObjects(history, historyIndex,
                           Append(objects, ShapeObject(currentTool, r, t)))
                      /\ now' = t
               ELSE UNCHANGED <<objects, history, historyIndex, now>>
            /\ shapeStart' = None
            /\ shapeCurrent' = None
            /\ UNCHANGED <<selectedIds, currentPath, marqueeStart, marqueeCurrent>>
       [] /\ currentTool \in {"select", "merge"}
          /\ IsSome(marqueeStart) /\ IsSome(marqueeCurrent) ->
            LET ids == MarqueeIds(Val(marqueeStart), Val(marqueeCurrent)) IN
            /\ selectedIds' =
                 IF ctrl
                 THEN selectedIds \o SelectSeq(ids, LAMBDA id :
                                                  ~Includes(selectedIds, id))
                 ELSE ids
            /\ marqueeStart' = None
            /\ marqueeCurrent' = None
            /\ UNCHANGED <<objects, history, historyIndex, now, currentPath,
                           shapeStart, shapeCurrent>>
       [] OTHER ->
            UNCHANGED <<objects, selectedIds, history, historyIndex, now,
                        currentPath, marqueeStart, marqueeCurrent, shapeStart,
                        shapeCurrent>>

MouseLeave ==
  /\ marqueeCurrent' = None
  /\ lastEvent' = "mouseLeave"
  /\ modifier' = FALSE
  /\ UNCHANGED <<appVars, isDrawing, currentPath, dragStart, dragOffset,
                 resizeHandle, marqueeStart, shapeStart, shapeCurrent,
                 envVars, gesture>>

Init ==
  /\ currentTool = "select"
  /\ objects = <<>>
  /\ selectedIds = <<>>
  /\ zoom = 100
  /\ history = <<[objects |-> <<>>]>>
  /\ historyIndex = 0
  /\ eraserSize = 20
  /\ brushSize = 5
  /\ isDrawing = FALSE
  /\ currentPath = <<>>
  /\ dragStart = None
  /\ dragOffset = None
  /\ resizeHandle = None
  /\ marqueeStart = None
  /\ marqueeCurrent = None
  /\ shapeStart = None
  /\ shapeCurrent = None
  /\ now = 0
  /\ pendingImages = <<>>
  /\ lastEvent = "init"
  /\ gesture = NoGesture
  /\ modifier = FALSE

(***************************************************************************)
(* Specifications.                                                         *)
(***************************************************************************)
Booleans == {TRUE, FALSE}

Next ==
  \/ \E t \in Tools : SetTool(t)
  \/ \E b \in BrushSizes : SetBrushSize(b)
  \/ zoom < 200 /\ ZoomIn
  \/ zoom > 50 /\ ZoomOut
  \/ ResetZoom
  \/ Undo
  \/ Redo
  \/ New
  \/ \E size \in ImageSizes : OpenImage(size)
  \/ \E k \in 1..Len(pendingImages) : ImageLoaded(k)
  \/ \E edit \in PanelEdits : ObjectUpdate(edit)
  \/ \E updates \in DirectUpdates : UpdateObject(updates)
  \/ Merge
  \/ Delete
  \/ \E pos \in Pointer, ctrl \in Booleans : MouseDown(pos, ctrl)
  \/ \E pos \in Pointer : MouseMove(pos)
  \/ \E pos \in Pointer, ctrl \in Booleans : MouseUp(pos, ctrl)
  \/ MouseLeave

Spec == Init /\ [][Next]_vars

(***************************************************************************)
(* Smaller specifications.  Each delivers the pointer events as whole      *)
(* gestures (a pointer-down when no gesture is under way, then moves, then *)
(* a pointer-up) and the toolbar and keyboard commands between gestures;   *)
(* an image load completes at any time.  The pointer-up handler computes   *)
(* the pointer position and never reads it, so one position is delivered.  *)
(***************************************************************************)
Idle ==
  /\ ~isDrawing
  /\ dragStart = None
  /\ resizeHandle = None
  /\ marqueeStart = None
  /\ shapeStart = None

\* The specifications of one or two objects stop at a scene of SceneObjects
\* objects and a history of SceneHistory snapshots.
SceneObjects == 2
SceneHistory == 4

SmallScene ==
  /\ Len(objects') <= SceneObjects
  /\ Len(history') <= SceneHistory

\* History: shape commits, image imports, delete, new, undo and redo.
HistoryPointer == {Pt(100, 100), Pt(300, 250)}

NextHistory ==
  \/ Idle /\ SetTool("rectangle")
  \/ Idle /\ Undo
  \/ Idle /\ Redo
  \/ Idle /\ New
  \/ Idle /\ Delete /\ SmallScene
  \/ Idle /\ OpenImage(<<6, 4>>)
  \/ \E k \in 1..Len(pendingImages) : ImageLoaded(k) /\ SmallScene
  \/ Idle /\ \E pos \in HistoryPointer : MouseDown(pos, FALSE)
  \/ ~Idle /\ \E pos \in HistoryPointer : MouseMove(pos) /\ SmallScene
  \/ ~Idle /\ MouseUp(Pt(100, 100), FALSE) /\ SmallScene

SpecHistory == Init /\ [][NextHistory]_vars

\* Undo and redo over the commits of one rectangle: its creation, drags,
\* resizes and deletion, with clicks that select it in between.
NextUndo ==
  \/ Idle /\ objects = <<>> /\ SetTool("rectangle")
  \/ Idle /\ SetTool("select")
  \/ Idle /\ Undo
  \/ Idle /\ Redo
  \/ Idle /\ New
  \/ Idle /\ Delete /\ SmallScene
  \/ Idle /\ \E pos \in HistoryPointer : MouseDown(pos, FALSE)
  \/ ~Idle /\ \E pos \in HistoryPointer : MouseMove(pos) /\ SmallScene
  \/ ~Idle /\ MouseUp(Pt(100, 100), FALSE) /\ SmallScene

SpecUndo == Init /\ [][NextUndo]_vars

\* Gestures of the select tool on one rectangle drawn with the rectangle
\* tool.
GestureDown == {Pt(100, 100), Pt(300, 250), Pt(200, 175)}

NextGesture ==
  \/ Idle /\ objects = <<>> /\ SetTool("rectangle")
  \/ Idle /\ SetTool("select")
  \/ Idle /\ \E pos \in GestureDown : MouseDown(pos, FALSE)
  \/ ~Idle /\ currentTool = "rectangle"
           /\ \E pos \in GestureDown : MouseMove(pos) /\ SmallScene
  \/ ~Idle /\ currentTool = "select" /\ \E pos \in Pointer : MouseMove(pos) /\ SmallScene
  \/ ~Idle /\ MouseUp(Pt(100, 100), FALSE) /\ SmallScene

SpecGesture == Init /\ [][NextGesture]_vars

\* Creation and property edits: brush strokes, image imports and the
\* transform inputs of the properties panel.
EditPointer == {Pt(0, 100), Pt(3, 100)}

NextEdit ==
  \/ Idle /\ SetTool("brush")
  \/ Idle /\ \E b \in BrushSizes : SetBrushSize(b)
  \/ Idle /\ OpenImage(<<800, 600>>)
  \/ \E k \in 1..Len(pendingImages) : ImageLoaded(k) /\ SmallScene
  \/ Idle /\ \E edit \in PanelEdits : ObjectUpdate(edit) /\ SmallScene
  \/ Idle /\ \E pos \in EditPointer : MouseDown(pos, FALSE)
  \/ ~Idle /\ \E pos \in EditPointer : MouseMove(pos) /\ SmallScene
  \/ ~Idle /\ MouseUp(Pt(100, 100), FALSE) /\ SmallScene

SpecEdit == Init /\ [][NextEdit]_vars

\* Shape drafts of two shape tools, some of them below the minimum size,
\* with clicks of the select tool and undo in between.
ShapePointer == {Pt(100, 100), Pt(300, 250), Pt(110, 250)}

NextShape ==
  \/ Idle /\ \E t \in {"rectangle", "circle", "select"} : SetTool(t)
  \/ Idle /\ Undo
  \/ Idle /\ \E pos \in ShapePointer : MouseDown(pos, FALSE)
  \/ ~Idle /\ currentTool # "select"
           /\ \E pos \in ShapePointer : MouseMove(pos) /\ SmallScene
  \/ ~Idle /\ MouseUp(Pt(100, 100), FALSE) /\ SmallScene

SpecShape == Init /\ [][NextShape]_vars

\* Groups of two objects: a brush stroke that starts on the left edge of the
\* canvas and rectangles, each drawn by a drag of (50, 50), selected with
\* clicks and ctrl-clicks and merged.
MergeDown == {Pt(0, 100), Pt(100, 100)}

DraftStart == IF IsSome(shapeStart) THEN Val(shapeStart) ELSE currentPath[1]

DraftMove == MouseMove(Pt(DraftStart.x + 50, DraftStart.y + 50))

NextGroup ==
  \/ Idle /\ objects = <<>> /\ SetTool("brush")
  \/ Idle /\ \E t \in {"rectangle", "select"} : SetTool(t)
  \/ Idle /\ \E pos \in MergeDown, ctrl \in BOOLEAN : MouseDown(pos, ctrl)
  \/ ~Idle /\ currentTool # "select" /\ DraftMove
  \/ ~Idle /\ MouseUp(Pt(100, 100), FALSE) /\ SmallScene
  \/ Idle /\ Merge /\ SmallScene

SpecGroup == Init /\ [][NextGroup]_vars

\* The specifications of groups stop at a history of GroupHistory snapshots.
GroupHistory == 5

GroupScene == Len(history') <= GroupHistory

\* Merge and delete over scenes of up to MaxObjects rectangles.
NextMerge ==
  \/ Idle /\ \E t \in {"rectangle", "select"} : SetTool(t)
  \/ Idle /\ \E pos \in MergeDown, ctrl \in BOOLEAN : MouseDown(pos, ctrl)
  \/ ~Idle /\ currentTool # "select" /\ DraftMove
  \/ ~Idle /\ MouseUp(Pt(100, 100), FALSE) /\ GroupScene
  \/ Idle /\ Merge /\ GroupScene
  \/ Idle /\ Delete /\ GroupScene
  \/ Idle /\ \E updates \in DirectUpdates : UpdateObject(updates) /\ GroupScene

SpecMerge == Init /\ [][NextMerge]_vars

\* Erase strokes over rectangles drawn between three points.
ErasePointer == {Pt(100, 100), Pt(200, 200), Pt(150, 150)}

NextErase ==
  \/ Idle /\ objects = <<>> /\ SetTool("rectangle")
  \/ Idle /\ SetTool("eraser")
  \/ Idle /\ \E pos \in ErasePointer : MouseDown(pos, FALSE)
  \/ ~Idle /\ \E pos \in ErasePointer : MouseMove(pos) /\ SmallScene
  \/ ~Idle /\ MouseUp(Pt(100, 100), FALSE) /\ SmallScene

SpecErase == Init /\ [][NextErase]_vars

\* The zoom handlers, called at any zoom level, between the gestures that
\* draw, select and delete one rectangle.
NextZoom ==
  \/ Idle /\ ZoomIn
  \/ Idle /\ ZoomOut
  \/ Idle /\ ResetZoom
  \/ Idle /\ objects = <<>> /\ SetTool("rectangle")
  \/ Idle /\ SetTool("select")
  \/ Idle /\ Delete /\ SmallScene
  \/ Idle /\ MouseDown(Pt(100, 100), FALSE)
  \/ ~Idle /\ currentTool # "select" /\ DraftMove
  \/ ~Idle /\ MouseUp(Pt(100, 100), FALSE) /\ SmallScene

SpecZoom == Init /\ [][NextZoom]_vars

\* Tool changes at any time, between and inside the gestures of the
\* rectangle and select tools.
NextTool ==
  \/ \E t \in {"rectangle", "select"} : SetTool(t)
  \/ Idle /\ \E pos \in HistoryPointer : MouseDown(pos, FALSE)
  \/ ~Idle /\ \E pos \in HistoryPointer : MouseMove(pos) /\ SmallScene
  \/ ~Idle /\ MouseUp(Pt(100, 100), FALSE) /\ SmallScene

SpecTool == Init /\ [][NextTool]_vars

\* Gestures of the select tool on one rectangle, with the pointer leaving the
\* canvas in the middle of a gesture and pressing again after it came back.
LeavePress ==
  IF lastEvent = "mouseLeave" THEN TRUE
  ELSE IF Idle THEN currentTool = "select" \/ objects = <<>> ELSE FALSE

NextLeave ==
  \/ Idle /\ objects = <<>> /\ SetTool("rectangle")
  \/ Idle /\ SetTool("select")
  \/ LeavePress /\ \E pos \in HistoryPointer : MouseDown(pos, FALSE)
  \/ ~Idle /\ currentTool = "select" /\ MouseLeave
  \/ ~Idle /\ \E pos \in HistoryPointer : MouseMove(pos) /\ SmallScene
  \/ ~Idle /\ MouseUp(Pt(100, 100), FALSE) /\ SmallScene

SpecLeave == Init /\ [][NextLeave]_vars

\* Erase strokes over a group of rectangles that may overlap.
NextGroupErase ==
  \/ Idle /\ objects = <<>> /\ SetTool("rectangle")
  \/ Idle /\ SetTool("select")
  \/ Idle /\ (\E i \in 1..Len(objects) : objects[i].type = "merged")
          /\ SetTool("eraser")
  \/ Idle /\ (currentTool = "rectangle" => Len(objects) < SceneObjects)
          /\ \E pos \in ErasePointer, ctrl \in BOOLEAN : MouseDown(pos, ctrl)
  \/ ~Idle /\ currentTool # "select"
           /\ \E pos \in ErasePointer : MouseMove(pos) /\ GroupScene
  \/ ~Idle /\ MouseUp(Pt(100, 100), FALSE) /\ GroupScene
  \/ Idle /\ Merge /\ GroupScene

SpecGroupErase == Init /\ [][NextGroupErase]_vars

\* Gestures of the select tool, edits of the properties panel and merges
\* on rectangles that carry erase masks, alone or inside a group: the
\* eraser works until a first object is hit, and the select tool is taken
\* once a mask is stored.
MaskDown == {Pt(0, 100), Pt(100, 100), Pt(25, 70)}
MaskPointer == {Pt(50, 150), Pt(150, 150), Pt(100, 100), Pt(100, 125)}
MaskEdits == {[field |-> "x", value |-> 1150], [field |-> "rotation", value |-> 90]}

\* The erase masks of the scene tree, depth first: one entry per object and
\* per child of a group, with the object's id and its stored mask points.
RECURSIVE TreeMasks(_)
TreeMasks(objs) ==
  IF objs = <<>> THEN <<>>
  ELSE <<[id |-> objs[1].id, erasedAreas |-> objs[1].erasedAreas]>>
         \o TreeMasks(objs[1].children) \o TreeMasks(Tail(objs))

\* Some object of the scene tree carries mask points.
HasMask(objs) ==
  \E k \in 1..Len(TreeMasks(objs)) : TreeMasks(objs)[k].erasedAreas # <<>>

\* The presses and the pointer-moves delivered with each tool.
MaskPress(pos, ctrl) ==
  CASE currentTool = "rectangle" ->
         Len(objects) < SceneObjects /\ pos \in MergeDown /\ ~ctrl
    [] currentTool = "eraser" ->
         ~HasMask(objects) /\ pos \in MergeDown /\ ~ctrl
    [] OTHER -> pos \in MergeDown \/ ~ctrl

MaskPointerMove(pos) ==
  CASE currentTool = "rectangle" ->
         pos = Pt(DraftStart.x + 50, DraftStart.y + 50)
    [] currentTool = "eraser" -> ~HasMask(objects) /\ pos = Pt(100, 100)
    [] OTHER -> pos = Pt(100, 125)

NextMask ==
  \/ Idle /\ objects = <<>> /\ SetTool("rectangle")
  \/ Idle /\ objects # <<>> /\ ~HasMask(objects) /\ SetTool("eraser")
  \/ Idle /\ HasMask(objects) /\ SetTool("select")
  \/ Idle /\ \E pos \in MaskDown, ctrl \in BOOLEAN :
               MaskPress(pos, ctrl) /\ MouseDown(pos, ctrl)
  \/ ~Idle /\ \E pos \in MaskPointer :
                MaskPointerMove(pos) /\ MouseMove(pos)
  \/ ~Idle /\ MouseUp(Pt(100, 100), FALSE)
  \/ Idle /\ currentTool = "select" /\ Merge
  \/ Idle /\ currentTool = "select"
          /\ \E edit \in MaskEdits : ObjectUpdate(edit)

SpecMask == Init /\ [][NextMask]_vars

\* Clicks, ctrl-clicks and marquees of the select tool on one or two
\* rectangles of 100 by 100 that overlap; the select tool moves the pointer
\* only while a marquee is open.
OverlapDown == {Pt(100, 100), Pt(150, 150)}
SelectPointer == {Pt(0, 0), Pt(125, 125), Pt(175, 175), Pt(225, 225), Pt(300, 300)}

SelectPress(pos) ==
  IF currentTool = "rectangle"
  THEN Len(objects) < SceneObjects /\ pos \in OverlapDown
  ELSE pos \in SelectPointer

SelectPointerMove(pos) ==
  IF currentTool = "rectangle"
  THEN pos = Pt(Val(shapeStart).x + 100, Val(shapeStart).y + 100)
  ELSE IsSome(marqueeStart) /\ pos \in SelectPointer

NextSelect ==
  \/ Idle /\ \E t \in {"rectangle", "select"} : SetTool(t)
  \/ Idle /\ \E pos \in OverlapDown \cup SelectPointer, ctrl \in BOOLEAN :
               SelectPress(pos) /\ MouseDown(pos, ctrl)
  \/ ~Idle /\ \E pos \in SelectPointer \cup {Pt(200, 200), Pt(250, 250)} :
                SelectPointerMove(pos) /\ MouseMove(pos)
  \/ ~Idle /\ \E ctrl \in BOOLEAN : MouseUp(Pt(100, 100), ctrl)

SpecSelect == Init /\ [][NextSelect]_vars

\* Drags of the select tool on a brush stroke, on a rectangle and on the
\* group merged from them, some of them stopped by the canvas edge; the
\* pointer moves in the select tool only while it drags.
DragDown == {Pt(0, 100), Pt(100, 100)}
DragTo == {Pt(0, 0), Pt(200, 200)}

DragPress(pos, ctrl) ==
  CASE currentTool = "brush" -> objects = <<>> /\ pos = Pt(100, 100) /\ ~ctrl
    [] currentTool = "rectangle" ->
         Len(objects) < SceneObjects /\ pos = Pt(0, 100) /\ ~ctrl
    [] OTHER -> TRUE

DragPointerMove(pos) ==
  IF currentTool = "select" THEN Dragging /\ pos \in DragTo
  ELSE pos = Pt(DraftStart.x + 50, DraftStart.y + 50)

NextDrag ==
  \/ Idle /\ objects = <<>> /\ SetTool("brush")
  \/ Idle /\ \E t \in {"rectangle", "select"} : SetTool(t)
  \/ Idle /\ \E pos \in DragDown, ctrl \in BOOLEAN :
               DragPress(pos, ctrl) /\ MouseDown(pos, ctrl)
  \/ ~Idle /\ \E pos \in DragTo \cup {Pt(50, 150), Pt(150, 150)} :
                DragPointerMove(pos) /\ MouseMove(pos) /\ GroupScene
  \/ ~Idle /\ MouseUp(Pt(100, 100), FALSE) /\ GroupScene
  \/ Idle /\ currentTool = "select" /\ Merge /\ GroupScene

SpecDrag == Init /\ [][NextDrag]_vars

\* The erase engine on a rectangle nested two groups deep. The scenes are
\* built the way the program builds them: two rectangles merged into a
\* group, the group resized to w1 by h1, merged with a third rectangle into
\* an outer group, and the outer group resized by kx in width and to 1/ky
\* in height. The history before is abbreviated to the empty scene and the
\* scene itself.
Resized(obj, w, h) ==
  ResizeObject(obj, [obj.transform EXCEPT !.width = w, !.height = h],
               obj.transform)

NestedScene(w1, h1, kx, ky) ==
  LET inner == Resized(MergedObject(
                 <<ShapeObject("rectangle", Transform(100, 100, 50, 50, 0), 0),
                   ShapeObject("rectangle", Transform(150, 150, 50, 50, 0), 1)>>,
                 1), w1, h1)
      outer == MergedObject(
                 <<inner,
                   ShapeObject("rectangle",
                               Transform(100 + w1, 100 + h1, 50, 50, 0), 2)>>, 2)
  IN  <<Resized(outer, kx * (w1 + 50), (h1 + 50) \div ky)>>

NestedScenes ==
  {NestedScene(w1, h1, kx, ky) :
     w1 \in {100, 200}, h1 \in {100, 50}, kx \in {1, 2}, ky \in {1, 2}}

ScalePointer == {Pt(105, 115), Pt(110, 125), Pt(150, 150)}

InitScale ==
  /\ currentTool = "eraser"
  /\ objects \in NestedScenes
  /\ selectedIds = <<>>
  /\ zoom = 100
  /\ history = <<[objects |-> <<>>], [objects |-> objects]>>
  /\ historyIndex = 1
  /\ eraserSize = 20
  /\ brushSize = 5
  /\ isDrawing = FALSE
  /\ currentPath = <<>>
  /\ dragStart = None
  /\ dragOffset = None
  /\ resizeHandle = None
  /\ marqueeStart = None
  /\ marqueeCurrent = None
  /\ shapeStart = None
  /\ shapeCurrent = None
  /\ now = 2
  /\ pendingImages = <<>>
  /\ lastEvent = "init"
  /\ gesture = NoGesture
  /\ modifier = FALSE

NextScale ==
  \/ Idle /\ \E pos \in ScalePointer : MouseDown(pos, FALSE)
  \/ ~Idle /\ \E pos \in ScalePointer : MouseMove(pos) /\ SmallScene
  \/ ~Idle /\ MouseUp(Pt(100, 100), FALSE) /\ SmallScene

SpecScale == InitScale /\ [][NextScale]_vars

\* Erase strokes over a scene of a group and a rectangle: two rectangles are
\* drawn and merged, a third is drawn on top, and the eraser passes over the
\* group alone, over both, or over neither.
TreePointer == {Pt(25, 125), Pt(125, 125), Pt(300, 300)}

TreePress(pos, ctrl) ==
  CASE currentTool = "rectangle" ->
         Len(objects) < SceneObjects /\ pos \in MergeDown /\ ~ctrl
    [] currentTool = "eraser" -> pos \in TreePointer /\ ~ctrl
    [] OTHER -> pos \in MergeDown

TreePointerMove(pos) ==
  CASE currentTool = "rectangle" ->
         pos = Pt(DraftStart.x + 50, DraftStart.y + 50)
    [] currentTool = "eraser" -> pos \in TreePointer
    [] OTHER -> FALSE

NextTree ==
  \/ Idle /\ Len(objects) < SceneObjects /\ SetTool("rectangle")
  \/ Idle /\ Len(objects) = SceneObjects
          /\ SetTool(IF \E j \in 1..Len(objects) : objects[j].type = "merged"
                     THEN "eraser" ELSE "select")
  \/ Idle /\ \E pos \in MergeDown \cup TreePointer, ctrl \in BOOLEAN :
               TreePress(pos, ctrl) /\ MouseDown(pos, ctrl)
  \/ ~Idle /\ \E pos \in TreePointer \cup {Pt(50, 150), Pt(150, 150)} :
                TreePointerMove(pos) /\ MouseMove(pos)
  \/ ~Idle /\ MouseUp(Pt(100, 100), FALSE)
  \/ Idle /\ currentTool = "select" /\ Merge

SpecTree == Init /\ [][NextTree]_vars

\* Hit tests on a Drawn object without path points: the object a brush
\* stroke from (x + 5, y + 5) to (x + w - 5, y + h - 5) commits, with its
\* path emptied.  The select tool presses on it, drags it and resizes it.
EmptyDrawn(x, y, w, h) ==
  [DrawnObject(<<Pt(x + 5, y + 5), Pt(x + w - 5, y + h - 5)>>, 5, 0)
     EXCEPT !.path = <<>>]

EmptyPathScenes ==
  {<<EmptyDrawn(x, y, w, h)>> :
     x \in {100, 200}, y \in {100, 200}, w \in {50, 100}, h \in {50, 100}}

HitPointer == {Pt(50, 50), Pt(125, 125), Pt(225, 225), Pt(275, 275)}

InitHit ==
  /\ currentTool = "select"
  /\ objects \in EmptyPathScenes
  /\ selectedIds = <<>>
  /\ zoom = 100
  /\ history = <<[objects |-> <<>>], [objects |-> objects]>>
  /\ historyIndex = 1
  /\ eraserSize = 20
  /\ brushSize = 5
  /\ isDrawing = FALSE
  /\ currentPath = <<>>
  /\ dragStart = None
  /\ dragOffset = None
  /\ resizeHandle = None
  /\ marqueeStart = None
  /\ marqueeCurrent = None
  /\ shapeStart = None
  /\ shapeCurrent = None
  /\ now = 1
  /\ pendingImages = <<>>
  /\ lastEvent = "init"
  /\ gesture = NoGesture
  /\ modifier = FALSE

NextHit ==
  \/ Idle /\ \E pos \in HitPointer : MouseDown(pos, FALSE)
  \/ ~Idle /\ \E pos \in HitPointer : MouseMove(pos) /\ SmallScene
  \/ ~Idle /\ MouseUp(Pt(100, 100), FALSE) /\ SmallScene

SpecHit == InitHit /\ [][NextHit]_vars

(***************************************************************************)
(* Claims.                                                                 *)
(***************************************************************************)

\* C1: a drag or resize gesture of the select tool (one pointer-down, n >= 1
\* pointer-moves, one pointer-up) adds exactly one snapshot to the history,
\* whatever n is: when the pointer-up of such a gesture has been handled,
\* the history index is one above its value at the pointer-down and points
\* at the last snapshot.
C1_OneSnapshotPerGesture ==
  (/\ lastEvent = "mouseUp"
   /\ gesture.kind \in {"drag", "resize"}
   /\ gesture.moves >= 1)
  => /\ historyIndex = gesture.idx0 + 1
     /\ Len(history) = historyIndex + 1

\* C2: every committed mutation made while the history index is i yields
\* the first i + 1 snapshots followed by the new scene, with the index at
\* that last snapshot (so redo is unavailable right after the commit).  A
\* step that changes the snapshot sequence is a commit unless it is the
\* newScene command, which resets the history.
C2_CommitTruncatesAndAppends ==
  [][(history' # history /\ lastEvent' # "new")
     => /\ history' = Append(SubSeq(history, 1, historyIndex + 1),
                             [objects |-> objects'])
        /\ historyIndex' = Len(history') - 1]_vars

\* C3: whenever redo is available, redo() followed by undo() leaves the
\* live object list and the history index as they were; whenever undo is
\* available, undo() followed by redo() does likewise.
C3_UndoRedoRoundTrip ==
  /\ historyIndex < Len(history) - 1
     => LET r == handleUndo(handleRedo(AppState))
        IN  r.objects = objects /\ r.historyIndex = historyIndex
  /\ historyIndex > 0
     => LET r == handleRedo(handleUndo(AppState))
        IN  r.objects = objects /\ r.historyIndex = historyIndex

\* An undo has just stepped back to a snapshot that is neither the first nor
\* the last, and the snapshot redo would restore differs from the scene.
C3_Witness ==
  /\ lastEvent = "undo"
  /\ historyIndex = gesture.idx0 - 1
  /\ historyIndex > 0
  /\ historyIndex < Len(history) - 1
  /\ handleRedo(AppState).objects # objects

\* C4: a successful undo (index > 0) decrements the history index by 1,
\* sets the live scene to the objects of the snapshot at the new index,
\* leaves the snapshot sequence unchanged and empties the selection; a
\* successful redo (index < last) does the same with +1.
C4_UndoRedoStep ==
  [][/\ (lastEvent' = "undo" /\ historyIndex > 0)
        => /\ historyIndex' = historyIndex - 1
           /\ objects' = history[historyIndex' + 1].objects
           /\ history' = history
           /\ selectedIds' = <<>>
     /\ (lastEvent' = "redo" /\ historyIndex < Len(history) - 1)
        => /\ historyIndex' = historyIndex + 1
           /\ objects' = history[historyIndex' + 1].objects
           /\ history' = history
           /\ selectedIds' = <<>>]_vars

\* A redo has just succeeded while an object was selected, and changed the
\* scene.
C4_Witness ==
  /\ lastEvent = "redo"
  /\ historyIndex = gesture.idx0 + 1
  /\ gesture.sel0
  /\ selectedIds = <<>>
  /\ objects # history[gesture.idx0 + 1].objects

\* C5: undo() at history index 0 and redo() at the last history index are
\* no-ops: the object list, the snapshot sequence, the index and the
\* selection are unchanged.
C5_BoundaryNoOp ==
  [][((lastEvent' = "undo" /\ historyIndex = 0)
      \/ (lastEvent' = "redo" /\ historyIndex = Len(history) - 1))
     => UNCHANGED <<objects, history, historyIndex, selectedIds>>]_vars

\* A redo has just been handled at the last index of a history of several
\* snapshots while an object was selected.
C5_Witness ==
  /\ lastEvent = "redo"
  /\ historyIndex = gesture.idx0
  /\ historyIndex = Len(history) - 1
  /\ historyIndex > 0
  /\ gesture.sel0
  /\ selectedIds # <<>>

\* C6: in every reachable state every top-level object has width >= 10 and
\* height >= 10.
C6_MinimumSize ==
  \A j \in 1..Len(objects) :
    objects[j].transform.width >= 10 /\ objects[j].transform.height >= 10

\* C7: in every reachable state every top-level object's unrotated rect
\* lies inside the canvas: 0 <= x, 0 <= y, x + width <= 1200 and
\* y + height <= 800.
C7_InsideCanvas ==
  \A j \in 1..Len(objects) :
    LET t == objects[j].transform IN
    /\ 0 <= t.x
    /\ 0 <= t.y
    /\ t.x + t.width <= CANVAS_WIDTH
    /\ t.y + t.height <= CANVAS_HEIGHT

\* C8: updateObject with a transform that would put the rect outside the
\* canvas is accepted and the transform stored is the clamped one: after a
\* property edit the scene has been committed and the stored transform of
\* the edited object is what constrainToCanvas makes of it.
C8_UpdateStoredClamped ==
  [][lastEvent' = "objectUpdate"
     => /\ history' # history
        /\ \A j \in 1..Len(objects') :
             objects'[j].id = selectedIds[1]
             => LET t == objects'[j].transform
                    c == constrainToCanvas(t.x, t.y, t.width, t.height)
                IN  /\ t.x = c.x
                    /\ t.y = c.y
                    /\ t.width = c.width
                    /\ t.height = c.height]_vars

\* C9: during Dragging a pointer-move puts the object at (pointer - grab
\* offset) clamped independently on each axis, and leaves its width and
\* height unchanged: a target below 0 gives 0, a target that would put the
\* far side beyond the canvas gives the canvas size minus the object's
\* size, and any other target is taken exactly.
C9_DragClampsPerAxis ==
  [][(Dragging /\ lastEvent' = "mouseMove")
     => LET sel == Val(Selected)
            w == sel.transform.width
            h == sel.transform.height
            tx == Val(marqueeCurrent').x - Val(dragOffset).x
            ty == Val(marqueeCurrent').y - Val(dragOffset).y
        IN  \A j \in 1..Len(objects) :
              objects[j] = sel
              => /\ Len(objects') = Len(objects)
                 /\ objects'[j].transform.width = w
                 /\ objects'[j].transform.height = h
                 /\ objects'[j].transform.x =
                      (IF tx < 0 THEN 0
                       ELSE IF tx + w > CANVAS_WIDTH THEN CANVAS_WIDTH - w
                       ELSE tx)
                 /\ objects'[j].transform.y =
                      (IF ty < 0 THEN 0
                       ELSE IF ty + h > CANVAS_HEIGHT THEN CANVAS_HEIGHT - h
                       ELSE ty)]_vars

\* A drag pointer-move whose x target was below 0 has left the object at
\* x = 0 and moved it to exactly its y target, which differs from the y it
\* had.
C9_Witness ==
  /\ Dragging
  /\ lastEvent = "mouseMove"
  /\ gesture.kind = "drag" /\ gesture.moves >= 1
  /\ Val(marqueeCurrent).x - Val(dragOffset).x < 0
  /\ Val(Selected).transform.x = 0
  /\ Val(Selected).transform.y = Val(marqueeCurrent).y - Val(dragOffset).y
  /\ Val(Selected).transform.y # Val(gesture.from).transform.y

\* C10: a resize pointer-move by (dx, dy) followed in the same gesture by a
\* pointer-move by (-dx, -dy) restores the transform and the path the
\* object had before the first of the two.
C10_ResizeRoundTrip ==
  [][(/\ Resizing
      /\ lastEvent = "mouseMove" /\ IsSome(gesture.delta)
      /\ lastEvent' = "mouseMove"
      /\ Val(marqueeCurrent').x - Val(dragStart).x = -Val(gesture.delta).x
      /\ Val(marqueeCurrent').y - Val(dragStart).y = -Val(gesture.delta).y)
     => /\ Val(Selected').transform = Val(gesture.from).transform
        /\ Val(Selected').path = Val(gesture.from).path]_vars

\* The state in which a pointer-up releases a shape draft, and the draft's
\* extent on each axis.
ShapeRelease ==
  currentTool \in ShapeTools /\ IsSome(shapeStart) /\ IsSome(shapeCurrent)

DraftWidth == Abs(Val(shapeCurrent).x - Val(shapeStart).x)
DraftHeight == Abs(Val(shapeCurrent).y - Val(shapeStart).y)

\* C11: releasing a shape draft from (x1, y1) to (x2, y2) with
\* |x2 - x1| > 10 and |y2 - y1| > 10 appends exactly one object of the
\* active shape type on top of the z-order, with transform
\* {min(x1, x2), min(y1, y2), |x2 - x1|, |y2 - y1|, rotation 0}, and pushes
\* exactly one history snapshot.
C11_ShapeCommit ==
  [][(lastEvent' = "mouseUp" /\ ShapeRelease
      /\ DraftWidth > 10 /\ DraftHeight > 10)
     => /\ Len(objects') = Len(objects) + 1
        /\ SubSeq(objects', 1, Len(objects)) = objects
        /\ objects'[Len(objects')].type = currentTool
        /\ objects'[Len(objects')].transform =
             [x |-> Min(Val(shapeStart).x, Val(shapeCurrent).x),
              y |-> Min(Val(shapeStart).y, Val(shapeCurrent).y),
              width |-> DraftWidth, height |-> DraftHeight, rotation |-> 0]
        /\ history' = Append(SubSeq(history, 1, historyIndex + 1),
                             [objects |-> objects'])
        /\ historyIndex' = historyIndex + 1]_vars

\* The draft from (300, 250) back to (100, 100) has been released with the
\* circle tool over an existing object.
C11_Witness ==
  /\ lastEvent = "mouseUp"
  /\ Len(objects) = 2
  /\ objects[2].type = "circle"
  /\ objects[2].transform =
       [x |-> 100, y |-> 100, width |-> 200, height |-> 150, rotation |-> 0]
  /\ history[historyIndex + 1].objects = objects
  /\ history[historyIndex].objects = <<objects[1]>>

\* C12: a shape draft whose width <= 10 or height <= 10 at pointer-up
\* creates no object, pushes no history snapshot, leaves the selection
\* unchanged and returns the interaction machine to Idle, with the draft's
\* start and current points cleared.
C12_SmallDraftDiscarded ==
  [][(lastEvent' = "mouseUp" /\ ShapeRelease
      /\ (DraftWidth <= 10 \/ DraftHeight <= 10))
     => /\ UNCHANGED <<objects, history, historyIndex, selectedIds>>
        /\ shapeStart' = None
        /\ shapeCurrent' = None
        /\ Idle']_vars

\* A draft 10 wide has just been released while an object was selected.
C12_Witness ==
  /\ lastEvent = "mouseUp"
  /\ currentTool \in ShapeTools
  /\ marqueeCurrent = Some(Pt(110, 250))
  /\ shapeStart = None /\ shapeCurrent = None
  /\ selectedIds # <<>>
  /\ Len(objects) = 1

\* The selected and the unselected objects, in z-order.
SelectedObjects == SelectSeq(objects, LAMBDA o : Includes(selectedIds, o.id))
RemainingObjects == SelectSeq(objects, LAMBDA o : ~Includes(selectedIds, o.id))

\* A merge of at least two selected ids that name an object.
MergeCommit ==
  lastEvent' = "merge" /\ Len(selectedIds) >= 2 /\ SelectedObjects # <<>>

\* v moved into 0 .. limit - size, or to 0 when size exceeds limit.
ClampOrigin(v, size, limit) ==
  IF v < 0 \/ limit - size < 0 THEN 0
  ELSE IF v > limit - size THEN limit - size ELSE v

\* C13: the merged group's transform is the union of the selected objects'
\* unrotated rectangles with its origin clamped into the canvas and rotation
\* 0, its original width and height are the union's, and each child is the
\* selected object with its position, and every path point of a Drawn child,
\* reduced by the group's clamped origin.
C13_MergeGeometry ==
  [][MergeCommit =>
       LET S == SelectedObjects
           g == objects'[Len(objects')]
           left == CHOOSE v \in {S[j].transform.x : j \in 1..Len(S)} :
                     \A j \in 1..Len(S) : v <= S[j].transform.x
           top == CHOOSE v \in {S[j].transform.y : j \in 1..Len(S)} :
                    \A j \in 1..Len(S) : v <= S[j].transform.y
           right == CHOOSE v \in {S[j].transform.x + S[j].transform.width :
                                     j \in 1..Len(S)} :
                      \A j \in 1..Len(S) :
                         v >= S[j].transform.x + S[j].transform.width
           bottom == CHOOSE v \in {S[j].transform.y + S[j].transform.height :
                                      j \in 1..Len(S)} :
                       \A j \in 1..Len(S) :
                          v >= S[j].transform.y + S[j].transform.height
       IN  /\ g.type = "merged"
           /\ g.transform =
                Transform(ClampOrigin(left, right - left, CANVAS_WIDTH),
                          ClampOrigin(top, bottom - top, CANVAS_HEIGHT),
                          right - left, bottom - top, 0)
           /\ g.originalWidth = right - left
           /\ g.originalHeight = bottom - top
           /\ Len(g.children) = Len(S)
           /\ \A j \in 1..Len(S) :
                /\ g.children[j].transform =
                     [S[j].transform EXCEPT !.x = @ - g.transform.x,
                                            !.y = @ - g.transform.y]
                /\ Len(g.children[j].path) = Len(S[j].path)
                /\ S[j].type = "drawn" =>
                     \A q \in 1..Len(S[j].path) :
                        /\ RAdd(g.children[j].path[q].x, RInt(g.transform.x))
                             = S[j].path[q].x
                        /\ RAdd(g.children[j].path[q].y, RInt(g.transform.y))
                             = S[j].path[q].y
                /\ S[j].type # "drawn" => g.children[j].path = S[j].path
                /\ g.children[j].id = S[j].id
                /\ g.children[j].type = S[j].type]_vars

\* A group of a brush stroke that reaches left of the canvas and a
\* rectangle: the union's origin was clamped to x = 0.
C13_Witness ==
  /\ lastEvent = "merge"
  /\ \E i \in 1..Len(objects) :
       /\ objects[i].type = "merged"
       /\ objects[i].transform.x = 0
       /\ objects[i].transform.y > 0
       /\ \E j, k \in 1..Len(objects[i].children) :
            /\ objects[i].children[j].type = "drawn"
            /\ objects[i].children[j].transform.x < 0
            /\ objects[i].children[k].type = "rectangle"

\* C14: after a merge of two or more selected objects none of them is left
\* in the top-level list, the unselected objects keep their relative order,
\* the new group is last, its children are the selected objects in their
\* previous z-order, the selection is exactly the group's id, and exactly
\* one snapshot has been pushed.
C14_MergeStructure ==
  [][MergeCommit =>
       LET S == SelectedObjects
           n == Len(objects')
           g == objects'[n]
       IN  /\ n = Len(RemainingObjects) + 1
           /\ SubSeq(objects', 1, n - 1) = RemainingObjects
           /\ \A i \in 1..(n - 1) : ~Includes(selectedIds, objects'[i].id)
           /\ g.type = "merged"
           /\ [j \in 1..Len(g.children) |-> g.children[j].id]
                = [j \in 1..Len(S) |-> S[j].id]
           /\ selectedIds' = <<g.id>>
           /\ historyIndex' = historyIndex + 1
           /\ history' = Append(SubSeq(history, 1, historyIndex + 1),
                                [objects |-> objects'])]_vars

\* A merge of the bottom and the top of three rectangles: the one between
\* them stays, below the group.
C14_Witness ==
  /\ lastEvent = "merge"
  /\ Len(objects) = 2
  /\ objects[1].type = "rectangle"
  /\ objects[2].type = "merged"
  /\ selectedIds = <<objects[2].id>>
  /\ Len(objects[2].children) = 2
  /\ objects[2].children[1].id[2] < objects[1].id[2]
  /\ objects[1].id[2] < objects[2].children[2].id[2]
  /\ historyIndex = 4

\* C15: a delete or an object update invoked with an empty selection, and a
\* merge invoked with fewer than two selected ids, leave the object list, the
\* selection, the history and the history index unchanged.
C15_EmptySelectionNoOp ==
  [][(\/ lastEvent' \in {"delete", "updateObject"} /\ selectedIds = <<>>
      \/ lastEvent' = "merge" /\ Len(selectedIds) < 2)
       => UNCHANGED <<objects, selectedIds, history, historyIndex>>]_vars

\* A merge invoked with one rectangle of several selected: nothing merged.
C15_Witness ==
  /\ lastEvent = "merge"
  /\ Len(objects) >= 2
  /\ Len(selectedIds) = 1
  /\ selectedIds[1][1] = "rectangle"
  /\ \A i \in 1..Len(objects) : objects[i].type = "rectangle"

\* The ids of the scene tree: every top-level object followed by its
\* children, depth first.
RECURSIVE TreeIds(_)
TreeIds(objs) ==
  IF objs = <<>> THEN <<>>
  ELSE <<objs[1].id>> \o TreeIds(objs[1].children) \o TreeIds(Tail(objs))

\* C16: no two objects anywhere in the scene tree share an id.
C16_UniqueIds ==
  LET ids == TreeIds(objects) IN
  \A i, j \in 1..Len(ids) : ids[i] = ids[j] => i = j

\* The mask points an object stores, area after area.
RECURSIVE MaskPoints(_)
MaskPoints(areas) ==
  IF areas = <<>> THEN <<>> ELSE areas[1] \o MaskPoints(Tail(areas))

\* A pointer-move of the eraser while the button is down.
EraseStep ==
  lastEvent' = "mouseMove" /\ currentTool = "eraser" /\ isDrawing

\* C17: one erase sample of diameter d at p over an unrotated top-level
\* object that is not a group, with rect (x, y, w, h), stores exactly one new
\* mask point, {(p.x - x)/w, (p.y - y)/h, d/min(w, h)}.
C17_OneMaskPoint ==
  [][EraseStep =>
       LET p == Val(marqueeCurrent') IN
       \A j \in 1..Len(objects) :
          LET t == objects[j].transform IN
          (/\ objects[j].type # "merged"
           /\ t.rotation = 0
           /\ isPointInObject(p.x, p.y, objects[j]))
            => MaskPoints(objects'[j].erasedAreas)
                 = Append(MaskPoints(objects[j].erasedAreas),
                          [x |-> Rat(p.x - t.x, t.width),
                           y |-> Rat(p.y - t.y, t.height),
                           size |-> Rat(eraserSize, Min(t.width, t.height))])]_vars

\* The object list after a whole erase stroke: a pointer-down at the first
\* point, then a pointer-move to each of the others.
RECURSIVE ApplyStroke(_, _)
ApplyStroke(objs, stroke) ==
  IF Len(stroke) < 2 THEN objs
  ELSE ApplyStroke(EraseMove(objs, <<stroke[1]>>, stroke[2], eraserSize),
                   Tail(stroke))

EraseStrokes ==
  {<<Pt(100, 100), Pt(150, 150)>>,
   <<Pt(200, 200), Pt(150, 150)>>,
   <<Pt(150, 150), Pt(100, 100), Pt(200, 200)>>}

\* The set of mask points an object stores.
MaskSet(obj) ==
  LET points == MaskPoints(obj.erasedAreas) IN
  {points[q] : q \in 1..Len(points)}

\* C18: for two distinct erase strokes A and B over the same object, the set
\* of stored mask points is the same whether A is applied before B or B
\* before A.
C18_StrokeOrderIndependent ==
  \A A, B \in EraseStrokes :
     A # B =>
       LET ab == ApplyStroke(ApplyStroke(objects, A), B)
           ba == ApplyStroke(ApplyStroke(objects, B), A)
       IN  \A j \in 1..Len(objects) : MaskSet(ab[j]) = MaskSet(ba[j])

\* An object erased by two strokes: its second area does not start where
\* its first one ended.
C18_Witness ==
  /\ lastEvent = "mouseUp"
  /\ currentTool = "eraser"
  /\ \E j \in 1..Len(objects) :
       /\ Len(objects[j].erasedAreas) = 2
       /\ objects[j].erasedAreas[2][1] # objects[j].erasedAreas[1][2]

\* C19: a delete with a non-empty selection removes exactly the selected
\* top-level objects, keeps every other object unchanged and in the same
\* relative order, empties the selection and pushes exactly one snapshot.
C19_DeleteSelected ==
  [][(lastEvent' = "delete" /\ selectedIds # <<>>) =>
       /\ objects' = RemainingObjects
       /\ \A i \in 1..Len(objects') : ~Includes(selectedIds, objects'[i].id)
       /\ Len(objects') = Len(objects) - Len(SelectedObjects)
       /\ selectedIds' = <<>>
       /\ historyIndex' = historyIndex + 1
       /\ history' = Append(SubSeq(history, 1, historyIndex + 1),
                            [objects |-> objects'])]_vars

\* The middle one of three rectangles deleted: the other two are left, in
\* their order.
C19_Witness ==
  /\ lastEvent = "delete"
  /\ selectedIds = <<>>
  /\ historyIndex = 4
  /\ Len(objects) = 2
  /\ \A i \in 1..2 : objects[i].type = "rectangle"
  /\ LET before == history[historyIndex].objects IN
     /\ Len(before) = 3
     /\ objects = <<before[1], before[3]>>
     /\ before[2].id \notin {before[1].id, before[3].id}

\* What a step of a zoom handler does.
ZoomContract ==
  /\ (lastEvent' = "zoomIn") =>
       (zoom' = IF zoom >= 190 THEN 200 ELSE zoom + 10)
  /\ (lastEvent' = "zoomOut") =>
       (zoom' = IF zoom <= 60 THEN 50 ELSE zoom - 10)
  /\ (lastEvent' = "resetZoom") => (zoom' = 100)
  /\ (lastEvent' \in {"zoomIn", "zoomOut", "resetZoom"}) =>
       UNCHANGED <<objects, selectedIds, history, historyIndex>>

\* C20: the zoom percentage is always a multiple of 10 in [50, 200]; zoom-in
\* adds 10 saturating at 200, zoom-out subtracts 10 saturating at 50, reset
\* sets 100; no zoom operation changes the object list, the selection or
\* the history.
C20_Zoom ==
  /\ [](zoom % 10 = 0 /\ 50 <= zoom /\ zoom <= 200)
  /\ [][ZoomContract]_vars

\* A zoom-out at 50% over a scene with a selected rectangle.
C20_Witness ==
  /\ lastEvent = "zoomOut"
  /\ zoom = 50
  /\ Len(objects) = 1
  /\ selectedIds = <<objects[1].id>>
  /\ historyIndex = 1

\* C21: an image load that completes after other commits appends the image
\* to the scene as it is when the load completes, and the history keeps the
\* snapshots up to the index, followed by the import's snapshot.
C21_ImportKeepsInterveningChanges ==
  [][(lastEvent' = "imageLoaded") =>
       /\ Len(objects') = Len(objects) + 1
       /\ SubSeq(objects', 1, Len(objects)) = objects
       /\ objects'[Len(objects')].type = "image"
       /\ history' = Append(SubSeq(history, 1, historyIndex + 1),
                            [objects |-> objects'])]_vars

\* C22: in every reachable state the live object list is the object list of
\* the history snapshot at the current index.
C22_LiveEqualsSnapshot ==
  /\ historyIndex \in 0..(Len(history) - 1)
  /\ objects = history[historyIndex + 1].objects

\* After an undo that left a redo available, with an image in the scene and
\* a later snapshot that differs from it.
C22_Witness ==
  /\ lastEvent = "undo"
  /\ historyIndex = 1
  /\ Len(history) = 3
  /\ objects # <<>>
  /\ history[3].objects # objects
  /\ \E i \in 1..Len(objects) : objects[i].type = "image"

\* C23: after every pointer-up the interaction machine is Idle, also when
\* the tool was changed between the pointer-down and the pointer-up.
C23_IdleAfterPointerUp == (lastEvent = "mouseUp") => Idle

\* C24: when the pointer leaves the canvas during a marquee selection the
\* marquee is aborted and the machine is Idle again, so that nothing later
\* happens on account of the abandoned marquee.
C24_LeaveAbortsMarquee == (lastEvent = "mouseLeave") => marqueeStart = None

\* C25: in the select tool a pointer-down starts a rotation or a resize
\* only if exactly one object is selected.
C25_HandlesNeedSingleSelection ==
  [][(lastEvent' = "mouseDown" /\ currentTool = "select"
        /\ IsSome(resizeHandle'))
       => Len(selectedIds) = 1]_vars

\* The children of a group that a step changed.
ChangedChildren(j) ==
  {c \in 1..Len(objects[j].children) :
     objects'[j].children[c] # objects[j].children[c]}

\* C26: an erase sample inside a group is appended to at most one child of
\* the group; every other child is left unchanged.
C26_EraseOneChild ==
  [][EraseStep =>
       \A j \in 1..Len(objects) :
          objects[j].type = "merged" => Cardinality(ChangedChildren(j)) <= 1]_vars

\* A pointer-move that resizes the selected object.
ResizeStep == Resizing /\ lastEvent' = "mouseMove"

\* C27: a resize pointer-move with handle s, e or se never changes the
\* object's x or y.
C27_SouthEastKeepsOrigin ==
  [][(ResizeStep /\ Val(resizeHandle) \in {"s", "e", "se"})
       => /\ Val(Selected').transform.x = Val(Selected).transform.x
          /\ Val(Selected').transform.y = Val(Selected).transform.y]_vars

\* C28: a resize pointer-move with a handle containing w leaves the right
\* edge x + width unchanged, and one with a handle containing n leaves the
\* bottom edge y + height unchanged.
C28_FarEdgeFixed ==
  [][ResizeStep =>
       LET old == Val(Selected).transform
           new == Val(Selected').transform
       IN  /\ HasW(Val(resizeHandle)) => new.x + new.width = old.x + old.width
           /\ HasN(Val(resizeHandle)) => new.y + new.height = old.y + old.height]_vars

\* The masks of the objects that are not groups, as a set.
LeafMasks(objs) ==
  {TreeMasks(objs)[k] : k \in {n \in 1..Len(TreeMasks(objs)) :
                                 TreeMasks(objs)[n].id[1] # "merged"}}

\* A pointer-move of a drag, a resize or a rotation, or a committed edit
\* of the properties panel.
TransformStep ==
  \/ lastEvent' = "mouseMove" /\ currentTool = "select"
  \/ lastEvent' = "objectUpdate"

\* C29: a drag, a resize, a rotation and a property edit leave the stored
\* mask points of every object of the scene tree as they were, and a merge
\* moves the objects into the group with their mask points as they were.
C29_MasksKept ==
  [][/\ TransformStep => (TreeMasks(objects') = TreeMasks(objects))
     /\ (lastEvent' = "merge") => (LeafMasks(objects') = LeafMasks(objects))]_vars

\* C29 witness: a group whose child carries mask points has been resized,
\* and the child still carries them.
C29_Witness ==
  /\ lastEvent = "mouseMove" /\ currentTool = "select"
  /\ IsSome(resizeHandle) /\ Val(resizeHandle) # "rotate"
  /\ Len(selectedIds) = 1
  /\ \E j \in 1..Len(objects) :
       /\ objects[j].type = "merged"
       /\ objects[j].id = selectedIds[1]
       /\ \E c \in 1..Len(objects[j].children) :
            objects[j].children[c].erasedAreas # <<>>

\* A pointer event of the canvas that pushes a snapshot.
PointerCommit ==
  /\ lastEvent' \in {"mouseDown", "mouseMove", "mouseUp"}
  /\ (history' # history \/ historyIndex' # historyIndex)

\* C30: every snapshot pushed by a pointer event of the canvas differs from
\* the snapshot before it.
C30_PointerCommitsChange ==
  [][PointerCommit =>
       (history'[historyIndex' + 1].objects # history[historyIndex + 1].objects)]_vars

\* A pointer-up that closes a marquee.
MarqueeRelease ==
  /\ lastEvent' = "mouseUp" /\ currentTool \in {"select", "merge"}
  /\ IsSome(marqueeStart) /\ IsSome(marqueeCurrent)

\* The top-level objects whose unrotated rectangle lies inside the
\* rectangle spanned by a and b.
InsideMarquee(a, b) ==
  {j \in 1..Len(objects) :
     /\ objects[j].transform.x >= Min(a.x, b.x)
     /\ objects[j].transform.y >= Min(a.y, b.y)
     /\ objects[j].transform.x + objects[j].transform.width <= Max(a.x, b.x)
     /\ objects[j].transform.y + objects[j].transform.height <= Max(a.y, b.y)}

\* The ids of a sequence as a set, and sequences without a repeated entry.
IdSet(ids) == {ids[k] : k \in 1..Len(ids)}

NoDuplicates(ids) == Cardinality(IdSet(ids)) = Len(ids)

\* C31: the pointer-up of a marquee from a to b selects exactly the objects
\* inside the rectangle spanned by a and b, or with the modifier the
\* previous selection plus those objects, each id once; the object list
\* and the history stay as they were.
C31_MarqueeSelects ==
  [][MarqueeRelease =>
       LET inside == {objects[j].id :
                        j \in InsideMarquee(Val(marqueeStart), Val(marqueeCurrent))}
       IN  /\ IdSet(selectedIds') =
                IF modifier' THEN IdSet(selectedIds) \cup inside ELSE inside
           /\ NoDuplicates(selectedIds) => NoDuplicates(selectedIds')
           /\ UNCHANGED <<objects, history, historyIndex>>]_vars

\* A pointer-down of the select tool that starts a gesture, and the
\* position it was delivered at (the handler stores it as the start of the
\* drag or of the marquee).
SelectPressStep == lastEvent' = "mouseDown" /\ currentTool = "select" /\ Idle

PressPos == IF IsSome(dragStart) THEN Val(dragStart) ELSE Val(marqueeStart)

\* The objects under the point, and whether the point is on a handle or in
\* the interior of a selected object.
HitObjects(pos) ==
  {j \in 1..Len(objects) : isPointInObject(pos.x, pos.y, objects[j])}

HitsSelection(pos) ==
  \E j \in 1..Len(objects) :
    /\ Includes(selectedIds, objects[j].id)
    /\ \/ OnRotateHandle(pos, objects[j])
       \/ IsSome(HandleAt(pos, objects[j]))
       \/ isPointInObject(pos.x, pos.y, objects[j])

Topmost(hit) == CHOOSE j \in hit : \A k \in hit : k <= j

\* C32: without the modifier, a pointer-down of the select tool that hits
\* an object and no handle or interior of a selected object selects exactly
\* the topmost hit object and begins dragging; one that hits nothing
\* empties the selection and opens a marquee at the pointer.
C32_PressSelectsTopmost ==
  [][(SelectPressStep /\ ~modifier' /\ ~HitsSelection(PressPos')) =>
       IF HitObjects(PressPos') # {}
       THEN /\ selectedIds' = <<objects[Topmost(HitObjects(PressPos'))].id>>
            /\ Dragging'
            /\ dragStart' = Some(PressPos')
       ELSE /\ selectedIds' = <<>>
            /\ marqueeStart' = Some(PressPos')
            /\ dragStart' = None]_vars

\* C32 witness: a press where two objects with different ids overlap has
\* selected the upper one and the drag is under way.
C32_Witness ==
  /\ lastEvent = "mouseDown" /\ ~modifier /\ Dragging
  /\ Len(objects) = 2 /\ objects[1].id # objects[2].id
  /\ HitObjects(Val(dragStart)) = {1, 2}
  /\ selectedIds = <<objects[2].id>>

\* The selection after the membership of id was toggled, as a set.
Toggled(id) ==
  IF Includes(selectedIds, id) THEN IdSet(selectedIds) \ {id}
  ELSE IdSet(selectedIds) \cup {id}

\* C33: with the modifier held, a pointer-down of the select tool on an
\* object toggles that object's membership in the selection and no other:
\* when the handler stored the pointer as a drag start, the toggled object
\* is the topmost one under it; otherwise the press opened no marquee, so it
\* was on some object, and the selection is the old one with that object
\* toggled.
C33_ModifierToggles ==
  [][(SelectPressStep /\ modifier') =>
       IF IsSome(dragStart')
       THEN HitObjects(Val(dragStart')) # {} =>
              IdSet(selectedIds') =
                Toggled(objects[Topmost(HitObjects(Val(dragStart')))].id)
       ELSE ~IsSome(marqueeStart') =>
              \E j \in 1..Len(objects) :
                IdSet(selectedIds') = Toggled(objects[j].id)]_vars

\* The path points of an object relative to its origin.
PathOffsets(obj) ==
  [j \in 1..Len(obj.path) |->
     [x |-> RSub(obj.path[j].x, RInt(obj.transform.x)),
      y |-> RSub(obj.path[j].y, RInt(obj.transform.y))]]

\* A pointer-move of a drag.
DragStep == Dragging /\ lastEvent' = "mouseMove"

\* C34: a drag leaves the offset of every path point of every brush stroke
\* from the stroke's origin as it was, also when the canvas edge stops the
\* drag, and changes only x and y of a dragged group.
C34_DragKeepsOffsets ==
  [][DragStep =>
       /\ Len(objects') = Len(objects)
       /\ \A j \in 1..Len(objects) :
            /\ objects[j].type = "drawn" =>
                 PathOffsets(objects'[j]) = PathOffsets(objects[j])
            /\ objects[j].type = "merged" =>
                 objects'[j] =
                   [objects[j] EXCEPT
                      !.transform.x = objects'[j].transform.x,
                      !.transform.y = objects'[j].transform.y]]_vars

\* C34 witness: a drag moved a brush stroke against the top left corner of
\* the canvas, by less than the pointer asked for.
C34_Witness ==
  /\ lastEvent = "mouseMove" /\ Dragging
  /\ Val(Selected).type = "drawn"
  /\ Val(Selected).transform.x = 0 /\ Val(Selected).transform.y = 0
  /\ Val(marqueeCurrent).x - Val(dragOffset).x < 0

\* The pointer-up that ends a brush stroke.
BrushRelease == lastEvent' = "mouseUp" /\ currentTool = "brush" /\ isDrawing

\* The least and the greatest of a non-empty set of numbers.
Least(S) == CHOOSE v \in S : \A w \in S : v <= w

Greatest(S) == CHOOSE v \in S : \A w \in S : w <= v

\* C35: the release of a brush stroke of at least 2 recorded points appends
\* one drawn object with the recorded points as its path and the extent of
\* the points padded by the stroke width on every side as its box, and
\* pushes one snapshot; the release of a shorter stroke changes neither the
\* objects nor the history.
C35_BrushCommit ==
  [][BrushRelease =>
       IF Len(currentPath) >= 2
       THEN LET xs == {currentPath[k].x : k \in 1..Len(currentPath)}
                ys == {currentPath[k].y : k \in 1..Len(currentPath)}
                new == objects'[Len(objects')]
            IN  /\ Len(objects') = Len(objects) + 1
                /\ SubSeq(objects', 1, Len(objects)) = objects
                /\ new.type = "drawn"
                /\ new.path = [k \in 1..Len(currentPath) |-> RPt(currentPath[k])]
                /\ new.transform =
                     [x |-> Least(xs) - brushSize, y |-> Least(ys) - brushSize,
                      width |-> Greatest(xs) - Least(xs) + 2 * brushSize,
                      height |-> Greatest(ys) - Least(ys) + 2 * brushSize,
                      rotation |-> 0]
                /\ new.style.strokeWidth = brushSize
                /\ history' = Append(SubSeq(history, 1, historyIndex + 1),
                                     [objects |-> objects'])
                /\ historyIndex' = historyIndex + 1
       ELSE UNCHANGED <<objects, history, historyIndex>>]_vars

\* C35 witness: a stroke of two different points with the wider brush has
\* been committed after an earlier object.
C35_Witness ==
  /\ lastEvent = "mouseUp" /\ currentTool = "brush"
  /\ Len(objects) = 2 /\ objects[2].type = "drawn"
  /\ Len(objects[2].path) = 2 /\ objects[2].path[1] # objects[2].path[2]
  /\ objects[2].style.strokeWidth = 5
  /\ Len(history) = 3 /\ historyIndex = 2

\* The scale of the drawing context after drawObject entered the group obj
\* with the context scale ctx: ctx.scale(width / originalWidth,
\* height / originalHeight) multiplies the scale in force.
RenderScale(obj, ctx) ==
  LET t == obj.transform
      originalWidth == IF obj.originalWidth # 0 THEN obj.originalWidth ELSE t.width
      originalHeight == IF obj.originalHeight # 0 THEN obj.originalHeight ELSE t.height
  IN  [x |-> RMul(ctx.x, Rat(t.width, originalWidth)),
       y |-> RMul(ctx.y, Rat(t.height, originalHeight))]

\* For the object old and what an erase pointer-move from p1 to p2 made of
\* it, new, drawn under the context scale ctx: every leaf that got a new
\* erase area got it with the scale the renderer draws the leaf with. The
\* first and the last sample of the area are p1 and p2 in the leaf's
\* normalized frame, so their difference times the leaf's size times the
\* scale is p2 - p1, and the normalized size times the leaf's smaller side
\* times the horizontal scale is the eraser size.
RECURSIVE ScalesAgree(_, _, _, _, _)
ScalesAgree(old, new, ctx, p1, p2) ==
  IF old.type = "merged"
  THEN \A c \in 1..Len(old.children) :
         ScalesAgree(old.children[c], new.children[c],
                     RenderScale(old, ctx), p1, p2)
  ELSE \/ new.erasedAreas = old.erasedAreas
       \/ LET area == new.erasedAreas[Len(new.erasedAreas)]
              first == area[1]
              last == area[Len(area)]
              t == old.transform
          IN  /\ RMul(RMul(RSub(last.x, first.x), RInt(t.width)), ctx.x)
                   = RInt(p2.x - p1.x)
              /\ RMul(RMul(RSub(last.y, first.y), RInt(t.height)), ctx.y)
                   = RInt(p2.y - p1.y)
              /\ RMul(RMul(last.size, RInt(Min(t.width, t.height))), ctx.x)
                   = RInt(eraserSize)

\* C36: the scale factors the erase engine uses for a leaf at any depth are
\* the ones the renderer draws that leaf and its mask with.
C36_EraseScaleIsRenderScale ==
  [][EraseStep =>
       \A j \in 1..Len(objects) :
         ScalesAgree(objects[j], objects'[j], [x |-> RInt(1), y |-> RInt(1)],
                     currentPath[1], Val(marqueeCurrent'))]_vars

\* C36 witness: an erase stroke between two different points has put an
\* area on a rectangle two groups deep, with both groups resized in both
\* directions.
C36_Witness ==
  /\ lastEvent = "mouseMove" /\ currentTool = "eraser"
  /\ Len(objects) = 1 /\ objects[1].type = "merged"
  /\ objects[1].transform.width # objects[1].originalWidth
  /\ objects[1].transform.height # objects[1].originalHeight
  /\ LET inner == objects[1].children[1] IN
     /\ inner.type = "merged"
     /\ inner.transform.width # inner.originalWidth
     /\ inner.transform.height # inner.originalHeight
     /\ \E c \in 1..Len(inner.children) :
          /\ inner.children[c].erasedAreas # <<>>
          /\ inner.children[c].erasedAreas[1][1]
               # inner.children[c].erasedAreas[1][2]

\* C37: the selection holds no id twice, and every selected id is the id of
\* an object of the top-level list.
C37_SelectionValid ==
  /\ NoDuplicates(selectedIds)
  /\ \A k \in 1..Len(selectedIds) :
       \E j \in 1..Len(objects) : objects[j].id = selectedIds[k]

\* The flags handed to the top bar.
canUndo == historyIndex > 0

canRedo == historyIndex < Len(history) - 1

HistoryShape ==
  /\ Len(history) >= 1
  /\ 0 <= historyIndex /\ historyIndex <= Len(history) - 1
  /\ history[1].objects = <<>>
  /\ canUndo <=> historyIndex # 0
  /\ canRedo <=> historyIndex + 1 # Len(history)

NewStep == lastEvent' = "new"

\* C38: in every state the history is non-empty, the index lies within it,
\* the first snapshot is the empty scene, undo is offered exactly when the
\* index is not the first and redo exactly when it is not the last; and a
\* new scene leaves one empty snapshot, index 0 and an empty selection.
C38_HistoryShape ==
  /\ HistoryShape
  /\ [][/\ HistoryShape'
        /\ NewStep => /\ history' = <<[objects |-> <<>>]>>
                      /\ historyIndex' = 0
                      /\ selectedIds' = <<>>
                      /\ objects' = <<>>]_vars

\* C38 witness: a new scene chosen while an image import is loading that
\* began with three snapshots and the index in the middle; undo and redo are
\* both unavailable afterwards.
C38_Witness ==
  /\ lastEvent = "new"
  /\ pendingImages # <<>>
  /\ Len(pendingImages[1].history) = 3
  /\ pendingImages[1].historyIndex = 1
  /\ ~canUndo /\ ~canRedo
  /\ Len(history) = 1

\* An object with the erase masks of its whole subtree taken away.
RECURSIVE Unmasked(_)
Unmasked(obj) ==
  [obj EXCEPT !.erasedAreas = <<>>,
              !.children = [j \in 1..Len(obj.children) |->
                              Unmasked(obj.children[j])]]

\* C39: a pointer-move of the pressed eraser keeps the number and order of
\* the top-level objects, leaves every object the pointer is not over as it
\* was, and changes nothing but erase masks in the others: id, type,
\* transform, path and every other field of the object and of the objects
\* below it stay.
C39_EraseChangesMasksOnly ==
  [][EraseStep =>
       LET p == Val(marqueeCurrent') IN
       /\ Len(objects') = Len(objects)
       /\ \A j \in 1..Len(objects) :
            /\ ~isPointInObject(p.x, p.y, objects[j])
                 => objects'[j] = objects[j]
            /\ objects'[j].id = objects[j].id
            /\ objects'[j].type = objects[j].type
            /\ objects'[j].transform = objects[j].transform
            /\ objects'[j].path = objects[j].path
            /\ Unmasked(objects'[j]) = Unmasked(objects[j])]_vars

\* C39 witness: after an erase pointer-move the scene holds a group with a
\* masked child and, above or below it, an object without any mask.
C39_Witness ==
  /\ lastEvent = "mouseMove" /\ currentTool = "eraser" /\ isDrawing
  /\ Len(objects) >= 2
  /\ \E j, k \in 1..Len(objects) :
       /\ j # k
       /\ objects[j].type = "merged"
       /\ HasMask(<<objects[j]>>)
       /\ ~HasMask(<<objects[k]>>)

====
